---- MODULE Spec2Model ----
(***************************************************************************)
(* Model of the streaming delivery pipeline of wopr-plugin-slack:          *)
(*   - src/src/retry.ts   withRetry, calculateDelay, error classification  *)
(*   - src/src/typing.ts  the typing-indicator sessions                    *)
(*   - src/src/index.ts   handleMessage / handleChunk / updateMessage /    *)
(*                        finalizeMessage                                  *)
(* Times are milliseconds.  An optional JavaScript value is a sequence of  *)
(* length 0 (undefined) or 1 (the value).                                  *)
(***************************************************************************)
EXTENDS Integers, Sequences, FiniteSets, TLC

VARIABLES
    \* ---- retry.ts: one call of withRetry(fn, options) ----
    rOpts,       \* the options object: optional maxRetries, baseDelay, maxDelay
    rPhase,      \* "idle" | "calling" (await fn()) | "sleeping" | "returned" | "thrown"
    rAttempt,    \* the loop variable `attempt`
    rLastError,  \* the local `lastError` (optional error)
    rOutcome,    \* what withRetry returned or threw (optional)
    rCalls,      \* number of invocations of fn so far
    rLastFn,     \* what the last invocation of fn did: <<>>, <<"ok", v>> or <<"err", e>>
    rSleeps,     \* number of backoff sleeps begun so far
    rPrevDelay,  \* the delay of the sleep before the last one (optional)
    rLastDelay,  \* the delay of the last sleep (optional)
    rAnyHint,    \* did some failure so far carry a usable retry-after hint
    rObserved,   \* number of calls of options.onRetry so far
    rLastObs,    \* the arguments of the last call of options.onRetry (optional)
    \* ---- the clock ----
    now,         \* Date.now()
    \* ---- typing.ts ----
    tSess,       \* every TypingState created so far, in creation order
    activeIndicators, \* the registry: key -> index in tSess, 0 when absent
    tEdits,      \* the interval callbacks suspended in `await withRetry(chatUpdate)`
    tStopped,    \* keys for which stopTyping ran since their last startTyping
    tLate,       \* keys for which chatUpdate was issued while in tStopped
    \* ---- index.ts: one turn of handleMessage ----
    pc,          \* where handleMessage is: "start" | "say" | "inject" | "finalize" |
                 \*   "react" | "errorEdit" | "reactErr" | "delete" | "done"
    activeStreams, \* the keys that have an entry in the stream registry
    streamState, \* the turn's StreamState: messageTs (0 is ""), isFinalized
    buffer,      \* the closure's `buffer`
    lastFlush,   \* the closure's `lastFlush`
    finalizeTimer, \* the pending finalize timer: its due time (optional)
    hpc,         \* where handleChunk is: "idle" | "idleFlush" | "threshFlush"
    hNow,        \* handleChunk's local `now`
    hEdit,       \* the withRetry handleChunk's updateMessage awaits (optional)
    fEdit,       \* the withRetry the timer's finalizeMessage awaits (optional)
    mEdit,       \* the withRetry handleMessage awaits (optional)
    visible,     \* what the placeholder shows: the last update that resolved
    sChunks,     \* number of fragments the producer has delivered
    sAllText,    \* the concatenation of the delivered fragments' texts
    sFinalEdits, \* number of edits finalizeMessage has started
    sFinalBy,    \* who called the finalizeMessage that set isFinalized: "none" | "timer" | "completion"
    sFinalText,  \* the content handed to the finalizeMessage that set isFinalized (optional)
    sLastArrival, \* when the last text fragment arrived (the session start before the first)
    sGap,        \* did some text fragment arrive more than IDLE_SPLIT_MS after sLastArrival
    sFlushes,    \* number of edits updateMessage has started
    sExit,       \* how handleMessage left its try block: "none" | "empty" (the return
                 \*   of the empty-content path) | "ok" | "error" (the catch block)
    sLate,       \* kinds of edit issued after isFinalized was set (not the final edit)
    sNetFail,    \* did some chat.update of the turn reject
    sFinalFailed, \* did the withRetry of finalizeMessage throw
    sLost,       \* was text removed from buffer after a flush whose withRetry threw
    \* ---- the pairing module ----
    pendingPairings, \* the store: code -> PairingRequest (optional)
    claimAttempts,   \* source -> RateWindow (optional)
    requestAttempts, \* user -> RateWindow (optional)
    pLast,       \* the last call into the pairing module; of a create, a claim or a
                 \*   limiter call also what it was given and what it returned
    pSpent,      \* the codes claimed successfully since they were last issued
    pWon,        \* the codes claimed successfully so far
    pWindows,    \* per limiter and source: the window of its direct calls (optional)
    \* ---- index.ts: two turns of handleMessage on one session key ----
    turns,       \* per turn: where its handleMessage is ("start" | "say" | "inject" |
                 \*   "closing" | "done") and the text fragments it has handled
    streamOwner, \* the turn whose StreamState activeStreams holds for the key, 0: none
    \* ---- index.ts: direct messages under the DM policy "pairing" ----
    allowFrom,   \* config.channels.slack.dm.allowFrom, as a set
    dmPending,   \* the senders whose message was accepted and awaits ctx.inject
    dmLast       \* what the last step of a message handler did

retryVars == <<rOpts, rPhase, rAttempt, rLastError, rOutcome, rCalls, rLastFn,
               rSleeps, rPrevDelay, rLastDelay, rAnyHint, rObserved, rLastObs>>

typingVars == <<tSess, activeIndicators, tEdits, tStopped, tLate>>

streamVars == <<pc, sExit, activeStreams, streamState, buffer, lastFlush, finalizeTimer, hpc, hNow,
                hEdit, fEdit, mEdit, visible, sChunks, sAllText, sLastArrival, sGap,
                sFlushes, sFinalEdits, sFinalBy, sFinalText,
                sLate, sNetFail, sFinalFailed, sLost>>

pairingVars == <<pendingPairings, claimAttempts, requestAttempts, pLast, pSpent, pWon, pWindows>>

turnVars == <<turns, streamOwner>>

dmVars == <<allowFrom, dmPending, dmLast>>

vars == <<retryVars, now, typingVars, streamVars, pairingVars, turnVars, dmVars>>

None == <<>>
Some(v) == <<v>>
IsSome(o) == Len(o) = 1
Get(o) == o[1]
\* JavaScript's  o ?? d
OrElse(o, d) == IF IsSome(o) THEN Get(o) ELSE d

Min(a, b) == IF a <= b THEN a ELSE b

RECURSIVE Pow2(_)
Pow2(n) == IF n <= 0 THEN 1 ELSE 2 * Pow2(n - 1)

(***************************************************************************)
(* Bounds of the model.                                                    *)
(***************************************************************************)
MaxRetriesBound == 3
MaxTypingSessions == 2
MaxTypingEdits == 1
MaxTime == 6000
MaxChunks == 2
MaxStreamTime == 5000
MaxIdleTime == 36000
MaxClaimCalls == 6
MaxRequestCalls == 4
MaxDMClaims == 1

(***************************************************************************)
(* retry.ts                                                                *)
(***************************************************************************)
DEFAULT_MAX_RETRIES == 3
DEFAULT_BASE_DELAY == 1000
DEFAULT_MAX_DELAY == 30000

\* An error value as the classification reads it.  isObject is FALSE for
\* null, undefined and primitives.  retryAfter is present only when it is a
\* number (typeof err.retryAfter === "number"); header is the parsed
\* headers["retry-after"] string: absent, a number, or NaN.
MkErr(isObject, code, statusCode, status, retryAfter, header) ==
    [isObject |-> isObject, code |-> code, statusCode |-> statusCode,
     status |-> status, retryAfter |-> retryAfter, header |-> header]

NoHeader == [present |-> FALSE, nan |-> FALSE, val |-> 0]
NumHeader(n) == [present |-> TRUE, nan |-> FALSE, val |-> n]
NaNHeader == [present |-> TRUE, nan |-> TRUE, val |-> 0]

PlainErr(code, statusCode, status) ==
    MkErr(TRUE, code, statusCode, status, None, NoHeader)

Errors ==
    { MkErr(FALSE, "", None, None, None, NoHeader),                  \* null / a thrown string
      PlainErr("", None, None),                                      \* new Error("bad request")
      PlainErr("", Some(400), None),
      PlainErr("", Some(404), Some(503)),                            \* statusCode wins over status
      PlainErr("", None, Some(600)),
      PlainErr("ECONNRESET", None, None),
      PlainErr("EAI_AGAIN", None, None),
      PlainErr("", Some(502), None),
      PlainErr("", None, Some(500)),
      PlainErr("slack_webapi_rate_limited_error", None, None),
      MkErr(TRUE, "slack_webapi_rate_limited_error", None, None, Some(2), NoHeader),
      MkErr(TRUE, "slack_webapi_rate_limited_error", None, None, Some(0), NoHeader),
      MkErr(TRUE, "slack_webapi_rate_limited_error", None, None, Some(60), NoHeader),
      MkErr(TRUE, "slack_webapi_rate_limited_error", None, None, Some(0 - 1), NoHeader),
      MkErr(TRUE, "", Some(429), None, None, NumHeader(2)),
      MkErr(TRUE, "", None, Some(429), None, NaNHeader) }

\* isRateLimitError: <<>> for null, otherwise <<r>> with r the optional retryAfter.
isRateLimitError(error) ==
    IF ~error.isObject THEN None
    ELSE IF error.code = "slack_webapi_rate_limited_error"
         THEN Some(error.retryAfter)
    ELSE IF error.statusCode = Some(429) \/ error.status = Some(429)
         THEN Some(IF IsSome(error.retryAfter) THEN error.retryAfter
                   ELSE IF error.header.present /\ ~error.header.nan
                        THEN Some(error.header.val)
                   ELSE None)
    ELSE None

ConnectionCodes == {"ECONNRESET", "ECONNREFUSED", "ETIMEDOUT", "ENOTFOUND", "EAI_AGAIN"}

\* const status = (err.statusCode ?? err.status); 500 <= status < 600
IsServerStatusMut(error) ==
    LET status == IF IsSome(error.statusCode) THEN error.statusCode ELSE error.status
    IN  IsSome(status) /\ Get(status) >= 400 /\ Get(status) < 600

IsServerStatus(error) ==
    LET status == IF IsSome(error.statusCode) THEN error.statusCode ELSE error.status
    IN  IsSome(status) /\ Get(status) >= 500 /\ Get(status) < 600

isTransientError(error) ==
    IF IsSome(isRateLimitError(error)) THEN TRUE
    ELSE IF ~error.isObject THEN FALSE
    ELSE IF error.code \in ConnectionCodes THEN TRUE
    ELSE IsServerStatus(error)

\* Math.random() * baseDelay: a value of [0, baseDelay); 0 when baseDelay is 0.
JitterChoicesMut(baseDelay) ==
    {0} \cup {j \in {baseDelay \div 2, 3 * baseDelay - 1} : j >= 0}

JitterChoices(baseDelay) ==
    {0} \cup {j \in {baseDelay \div 2, baseDelay - 1} : j >= 0 /\ j < baseDelay}

\* if (retryAfterMs !== undefined && retryAfterMs > 0)
UsesHintMut(retryAfterMs) == FALSE
UsesHint(retryAfterMs) == IsSome(retryAfterMs) /\ Get(retryAfterMs) > 0

\* calculateDelay; jitter is the value of Math.random() * baseDelay.
calculateDelayMut(attempt, baseDelay, maxDelay, retryAfterMs, jitter) ==
    IF UsesHint(retryAfterMs)
    THEN Get(retryAfterMs)
    ELSE Min(baseDelay * Pow2(attempt) + jitter, maxDelay)

calculateDelay(attempt, baseDelay, maxDelay, retryAfterMs, jitter) ==
    IF UsesHint(retryAfterMs)
    THEN Min(Get(retryAfterMs), maxDelay)
    ELSE Min(baseDelay * Pow2(attempt) + jitter, maxDelay)

\* rateLimit?.retryAfter ? rateLimit.retryAfter * 1000 : undefined
RetryAfterMs(error) ==
    LET rateLimit == isRateLimitError(error)
    IN  IF IsSome(rateLimit) /\ IsSome(Get(rateLimit)) /\ Get(Get(rateLimit)) # 0
        THEN Some(Get(Get(rateLimit)) * 1000)
        ELSE None

OptMaxRetriesMut(o) == DEFAULT_MAX_RETRIES
OptMaxRetries(o) == OrElse(o.maxRetries, DEFAULT_MAX_RETRIES)
OptBaseDelay(o) == OrElse(o.baseDelay, DEFAULT_BASE_DELAY)
OptMaxDelay(o) == OrElse(o.maxDelay, DEFAULT_MAX_DELAY)

\* for (let attempt = 0; attempt <= maxRetries; attempt++)
LoopContinues(attempt, maxRetries) == attempt <= maxRetries

\* if (attempt >= maxRetries) break;
RetriesExhausted(attempt, maxRetries) == attempt >= maxRetries

\* if (!isTransientError(error)) break;
GivesUpOnMut(error) == FALSE
GivesUpOn(error) == ~isTransientError(error)

\* options.onRetry(attempt + 1, delay, error)
OnRetryAttemptMut(attempt) == attempt
OnRetryAttempt(attempt) == attempt + 1

\* throw lastError
ThrownErrorMut(lastError) == None
ThrownError(lastError) == lastError

RetryOptions ==
    [maxRetries : {None} \cup {Some(n) : n \in 0..MaxRetriesBound},
     baseDelay  : {None, Some(0), Some(1)},
     maxDelay   : {None, Some(0), Some(5), Some(2500)},
     onRetry    : BOOLEAN]

Results == {"ok", "recovered"}

\* no call of withRetry is being followed
RetryIdle ==
    /\ rPhase = "idle"
    /\ rAttempt = 0
    /\ rLastError = None
    /\ rOutcome = None
    /\ rCalls = 0
    /\ rLastFn = None
    /\ rSleeps = 0
    /\ rPrevDelay = None
    /\ rLastDelay = None
    /\ rAnyHint = FALSE
    /\ rObserved = 0
    /\ rLastObs = None

\* withRetry is called: the loop is entered and fn() is invoked for attempt 0.
WithRetryCall ==
    /\ UNCHANGED <<now, typingVars, streamVars, pairingVars, turnVars, dmVars>>
    /\ rPhase = "idle"
    /\ rAttempt' = 0
    /\ IF LoopContinues(0, OptMaxRetries(rOpts))
       THEN /\ rPhase' = "calling"
            /\ rCalls' = rCalls + 1
            /\ rOutcome' = rOutcome
       ELSE /\ rPhase' = "thrown"
            /\ rCalls' = rCalls
            /\ rOutcome' = Some(<<"err", ThrownError(rLastError)>>)
    /\ UNCHANGED <<rOpts, rLastError, rLastFn, rSleeps, rPrevDelay, rLastDelay,
                   rAnyHint, rObserved, rLastObs>>

\* fn() resolves: return await fn()
FnResolves ==
    /\ UNCHANGED <<now, typingVars, streamVars, pairingVars, turnVars, dmVars>>
    /\ rPhase = "calling"
    /\ \E v \in Results :
          /\ rLastFn' = <<"ok", v>>
          /\ rOutcome' = Some(<<"ok", v>>)
    /\ rPhase' = "returned"
    /\ UNCHANGED <<rOpts, rAttempt, rLastError, rCalls, rSleeps, rPrevDelay, rLastDelay,
                   rAnyHint, rObserved, rLastObs>>

\* fn() rejects with `error`: the catch block, up to the sleep or the throw.
FnRejects ==
    /\ UNCHANGED <<now, typingVars, streamVars, pairingVars, turnVars, dmVars>>
    /\ rPhase = "calling"
    /\ \E error \in Errors, jitter \in JitterChoices(OptBaseDelay(rOpts)) :
          /\ rLastFn' = <<"err", error>>
          /\ rLastError' = Some(error)
          /\ IF RetriesExhausted(rAttempt, OptMaxRetries(rOpts)) \/ GivesUpOn(error)
             THEN /\ rPhase' = "thrown"
                  /\ rOutcome' = Some(<<"err", ThrownError(Some(error))>>)
                  /\ UNCHANGED <<rSleeps, rPrevDelay, rLastDelay, rAnyHint,
                                 rObserved, rLastObs>>
             ELSE LET delay == calculateDelay(rAttempt, OptBaseDelay(rOpts),
                                              OptMaxDelay(rOpts), RetryAfterMs(error), jitter)
                  IN  /\ rPhase' = "sleeping"
                      /\ rOutcome' = rOutcome
                      /\ rSleeps' = rSleeps + 1
                      /\ rPrevDelay' = rLastDelay
                      /\ rLastDelay' = Some(delay)
                      /\ rAnyHint' = (rAnyHint \/ UsesHint(RetryAfterMs(error)))
                      /\ IF rOpts.onRetry
                         THEN /\ rObserved' = rObserved + 1
                              /\ rLastObs' = Some(<<OnRetryAttempt(rAttempt), delay, error>>)
                         ELSE UNCHANGED <<rObserved, rLastObs>>
    /\ UNCHANGED <<rOpts, rAttempt, rCalls>>

\* The backoff sleep elapses: attempt++, the loop test, the next fn().
SleepElapses ==
    /\ UNCHANGED <<now, typingVars, streamVars, pairingVars, turnVars, dmVars>>
    /\ rPhase = "sleeping"
    /\ rAttempt' = rAttempt + 1
    /\ IF LoopContinues(rAttempt + 1, OptMaxRetries(rOpts))
       THEN /\ rPhase' = "calling"
            /\ rCalls' = rCalls + 1
            /\ rOutcome' = rOutcome
       ELSE /\ rPhase' = "thrown"
            /\ rCalls' = rCalls
            /\ rOutcome' = Some(<<"err", ThrownError(rLastError)>>)
    /\ UNCHANGED <<rOpts, rLastError, rLastFn, rSleeps, rPrevDelay, rLastDelay,
                   rAnyHint, rObserved, rLastObs>>

(***************************************************************************)
(* A call of withRetry made by the typing simulator or by the stream       *)
(* handlers, followed only as far as its timing and its outcome matter:    *)
(* the attempt number, whether fn() is being awaited ("calling") or the    *)
(* backoff sleep is running ("sleeping"), and when the sleep ends.         *)
(***************************************************************************)
\* attempt = 0; return await fn()
RetryTaskStart == [attempt |-> 0, phase |-> "calling", wake |-> 0]

\* the catch block: does this rejection end withRetry (throw lastError)?
RetryTaskThrows(task, error, opts) ==
    RetriesExhausted(task.attempt, OptMaxRetries(opts)) \/ GivesUpOn(error)

\* the catch block when it does not: the task sleeps for calculateDelay(...)
RetryTaskSleep(task, error, jitter, opts, t) ==
    [attempt |-> task.attempt, phase |-> "sleeping",
     wake |-> t + calculateDelay(task.attempt, OptBaseDelay(opts), OptMaxDelay(opts),
                                 RetryAfterMs(error), jitter)]

\* the sleep ends: attempt++, fn() again
RetryTaskWake(task) == [attempt |-> task.attempt + 1, phase |-> "calling", wake |-> 0]

\* what chat.update may reject with: a connection error (transient), a
\* malformed request (fatal)
NetErrors ==
    { PlainErr("ECONNRESET", None, None),
      PlainErr("", Some(400), None) }

RemoveAt(seq, i) == [j \in 1..(Len(seq) - 1) |-> IF j < i THEN seq[j] ELSE seq[j + 1]]

(***************************************************************************)
(* typing.ts                                                               *)
(***************************************************************************)
TYPING_REFRESH_MS == 3000
TYPING_IDLE_TIMEOUT_MS == 30000
TYPING_FRAMES == <<"_Thinking._", "_Thinking.._", "_Thinking..._">>

\* the clock is looked at when a timer is due and at the multiples of the
\* refresh period
TimeStep == TYPING_REFRESH_MS

Keys == {"D1", "C1"}

\* the retry configurations the callers of startTyping pass (retryOpts(label))
TypingRetryOptions ==
    { [maxRetries |-> Some(1), baseDelay |-> None, maxDelay |-> Some(1000), onRetry |-> TRUE] }

\* stopTyping(key) on the sessions S and the registry R
stopTypingMut(S, R, key) ==
    IF R[key] # 0
    THEN [s |-> [S EXCEPT ![R[key]].active = FALSE,
                          ![R[key]].interval = FALSE, ![R[key]].nextFire = 0],
          r |-> [R EXCEPT ![key] = 0]]
    ELSE [s |-> S, r |-> [k \in Keys |-> 0]]

stopTyping(S, R, key) ==
    IF R[key] # 0
    THEN [s |-> [S EXCEPT ![R[key]].active = FALSE,
                          ![R[key]].interval = FALSE, ![R[key]].nextFire = 0],
          r |-> [R EXCEPT ![key] = 0]]
    ELSE [s |-> S, r |-> R]

\* startTyping, line 52: clean up any existing indicator for this key
StartCleanupMut(S, R, key) == [s |-> S, r |-> R]
StartCleanup(S, R, key) == stopTyping(S, R, key)

\* lines 70-74: idleTime > TYPING_IDLE_TIMEOUT_MS
IdleExpiredMut(t, lastActivity) == FALSE
IdleExpired(t, lastActivity) == t - lastActivity > TYPING_IDLE_TIMEOUT_MS

\* line 81: (state.frameIndex + 1) % TYPING_FRAMES.length
NextFrameMut(frameIndex) == (frameIndex + 1) % (Len(TYPING_FRAMES) + 1)
NextFrame(frameIndex) == (frameIndex + 1) % Len(TYPING_FRAMES)

\* the callback's catch, lines 89-92: stopTyping(key)
OnEditFailureMut(S, R, key) == [s |-> S, r |-> R]
OnEditFailure(S, R, key) == stopTyping(S, R, key)

\* the TypingState startTyping builds, with its interval armed
NewTypingState(key, messageTs, t) ==
    [key |-> key, messageTs |-> messageTs, interval |-> TRUE, nextFire |-> t + TYPING_REFRESH_MS,
     lastActivity |-> t, active |-> TRUE, frameIndex |-> 0,
     \* bookkeeping: the ticks of this session that attempted an edit, whether
     \* the withRetry of one of them threw, when the session was started, when
     \* a tick last attempted an edit, whether and when the idle timeout
     \* stopped it
     attempts |-> 0, failed |-> FALSE, started |-> t, lastEditAt |-> t,
     idleStopped |-> FALSE, idleStopAt |-> 0]

\* startTyping(key, channelId, messageTs, deps)
startTyping(S, R, key, messageTs, t) ==
    LET c == StartCleanup(S, R, key)
    IN  [s |-> Append(c.s, NewTypingState(key, messageTs, t)),
         r |-> [c.r EXCEPT ![key] = Len(c.s) + 1]]

\* tickTyping(key)
tickTypingMut(S, R, key, t) ==
    IF R[key] # 0 THEN [S EXCEPT ![R[key]].lastActivity = t, ![R[key]].frameIndex = 0] ELSE S

tickTyping(S, R, key, t) ==
    IF R[key] # 0 THEN [S EXCEPT ![R[key]].lastActivity = t] ELSE S

\* no typing session exists
TypingIdle ==
    /\ tSess = <<>>
    /\ activeIndicators = [k \in Keys |-> 0]
    /\ tEdits = <<>>
    /\ tStopped = {}
    /\ tLate = {}

\* a caller starts the indicator for key
StartTypingCall(key) ==
    /\ Len(tSess) < MaxTypingSessions
    /\ LET st == startTyping(tSess, activeIndicators, key, Len(tSess) + 1, now)
       IN  /\ tSess' = st.s
           /\ activeIndicators' = st.r
    /\ tStopped' = tStopped \ {key}
    /\ UNCHANGED <<tEdits, tLate>>

\* a caller stops the indicator for key (also when there is none)
StopTypingCall(key) ==
    /\ LET st == stopTyping(tSess, activeIndicators, key)
       IN  /\ tSess' = st.s
           /\ activeIndicators' = st.r
    /\ tStopped' = tStopped \cup {key}
    /\ UNCHANGED <<tEdits, tLate>>

\* a caller reports activity for key
TickTypingCall(key) ==
    /\ tSess' = tickTyping(tSess, activeIndicators, key, now)
    /\ UNCHANGED <<activeIndicators, tEdits, tStopped, tLate>>

\* the setInterval callback of session sid runs, up to its await or return
IntervalFires(sid) ==
    /\ sid \in 1..Len(tSess)
    /\ tSess[sid].interval
    /\ tSess[sid].nextFire = now
    /\ LET state == tSess[sid]
           key == state.key
           rearmed == [tSess EXCEPT ![sid].nextFire = now + TYPING_REFRESH_MS]
       IN  IF ~state.active \/ IdleExpired(now, state.lastActivity)
           THEN LET st == stopTyping([rearmed EXCEPT ![sid].idleStopped = state.active,
                                                     ![sid].idleStopAt = now],
                                     activeIndicators, key)
                IN  /\ tSess' = st.s
                    /\ activeIndicators' = st.r
                    /\ tStopped' = tStopped \cup {key}
                    /\ UNCHANGED <<tEdits, tLate>>
           ELSE LET frame == NextFrame(state.frameIndex)
                IN  /\ Len(tEdits) < MaxTypingEdits
                    /\ tSess' = [rearmed EXCEPT ![sid].frameIndex = frame,
                                                ![sid].attempts = state.attempts + 1,
                                                ![sid].lastEditAt = now]
                    \* k: this is the k-th tick of the session to attempt an edit
                    /\ tEdits' = Append(tEdits, [sid |-> sid, frame |-> frame,
                                                 k |-> state.attempts + 1,
                                                 task |-> RetryTaskStart])
                    /\ tLate' = IF key \in tStopped THEN tLate \cup {key} ELSE tLate
                    /\ UNCHANGED <<activeIndicators, tStopped>>

\* chatUpdate of the i-th suspended callback resolves: the callback ends
TypingEditResolves(i) ==
    /\ i \in 1..Len(tEdits)
    /\ tEdits[i].task.phase = "calling"
    /\ tEdits' = RemoveAt(tEdits, i)
    /\ UNCHANGED <<tSess, activeIndicators, tStopped, tLate>>

\* chatUpdate of the i-th suspended callback rejects: withRetry sleeps, or
\* throws and the callback's catch stops the indicator of its key
TypingEditRejects(i) ==
    /\ i \in 1..Len(tEdits)
    /\ tEdits[i].task.phase = "calling"
    /\ \E error \in NetErrors, jitter \in JitterChoices(OptBaseDelay(rOpts)) :
          LET e == tEdits[i]
              key == tSess[e.sid].key
          IN  IF RetryTaskThrows(e.task, error, rOpts)
              THEN LET st == OnEditFailure([tSess EXCEPT ![e.sid].failed = TRUE],
                                               activeIndicators, key)
                   IN  /\ tSess' = st.s
                       /\ activeIndicators' = st.r
                       /\ tStopped' = tStopped \cup {key}
                       /\ tEdits' = RemoveAt(tEdits, i)
              ELSE /\ tEdits' = [tEdits EXCEPT ![i].task =
                                    RetryTaskSleep(e.task, error, jitter, rOpts, now)]
                   /\ UNCHANGED <<tSess, activeIndicators, tStopped>>
    /\ UNCHANGED tLate

\* the backoff sleep of the i-th suspended callback ends: chatUpdate again
TypingEditWakes(i) ==
    /\ i \in 1..Len(tEdits)
    /\ tEdits[i].task.phase = "sleeping"
    /\ tEdits[i].task.wake = now
    /\ tEdits' = [tEdits EXCEPT ![i].task = RetryTaskWake(tEdits[i].task)]
    /\ tLate' = IF tSess[tEdits[i].sid].key \in tStopped
                THEN tLate \cup {tSess[tEdits[i].sid].key} ELSE tLate
    /\ UNCHANGED <<tSess, activeIndicators, tStopped>>

\* the times at which a typing timer or a typing backoff sleep is due
TypingDue ==
    {tSess[sid].nextFire : sid \in {x \in 1..Len(tSess) : tSess[x].interval}}
    \cup {tEdits[i].task.wake : i \in {x \in 1..Len(tEdits) : tEdits[x].task.phase = "sleeping"}}

SetMin(S) == CHOOSE x \in S : \A y \in S : x <= y

\* time passes: to the next due timer, or to the next multiple of step
NextInstant(due, step) ==
    LET grid == (now \div step + 1) * step
    IN  SetMin({grid} \cup {d \in due : d > now})

(***************************************************************************)
(* Texts.  A text is a string in run-length form: a sequence of runs       *)
(* [c, n] (the character c, n >= 1 times), no two adjacent runs having the *)
(* same character.                                                         *)
(***************************************************************************)
Run(c, n) == <<[c |-> c, n |-> n]>>
Empty == <<>>

RECURSIVE TLen(_)
\* text.length
TLen(T) == IF T = <<>> THEN 0 ELSE Head(T).n + TLen(Tail(T))

\* a + b
TCat(A, B) ==
    IF A = <<>> THEN B
    ELSE IF B = <<>> THEN A
    ELSE IF A[Len(A)].c = B[1].c
         THEN SubSeq(A, 1, Len(A) - 1)
              \o <<[c |-> B[1].c, n |-> A[Len(A)].n + B[1].n]>>
              \o Tail(B)
    ELSE A \o B

RECURSIVE TPrefix(_, _)
\* text.substring(0, k)
TPrefix(T, k) ==
    IF k <= 0 \/ T = <<>> THEN <<>>
    ELSE IF Head(T).n >= k THEN <<[c |-> Head(T).c, n |-> k]>>
    ELSE <<Head(T)>> \o TPrefix(Tail(T), k - Head(T).n)

RECURSIVE TJoin(_)
\* parts.join("")
TJoin(parts) == IF parts = <<>> THEN <<>> ELSE TCat(Head(parts), TJoin(Tail(parts)))

(***************************************************************************)
(* index.ts: the stream handlers                                           *)
(***************************************************************************)
SLACK_LIMIT == 4000
EDIT_THRESHOLD == 1500
IDLE_SPLIT_MS == 1000
FINALIZE_MS == 2000

\* the session key of the turn
SessionKey == "D1"

\* updateMessage, lines 912-915:
\* if (text.length > SLACK_LIMIT) text = text.substring(0, SLACK_LIMIT - 3) + "..."
TruncateTextMut(content) ==
    IF TLen(content) > SLACK_LIMIT
    THEN TPrefix(content, SLACK_LIMIT)
    ELSE content

TruncateText(content) ==
    IF TLen(content) > SLACK_LIMIT
    THEN TCat(TPrefix(content, SLACK_LIMIT - 3), Run(".", 3))
    ELSE content

\* finalizeMessage, lines 943-947: its own copy of the same three lines
FinalizeText(content) ==
    IF TLen(content) > SLACK_LIMIT
    THEN TCat(TPrefix(content, SLACK_LIMIT - 3), Run(".", 3))
    ELSE content

\* the stream messages the producer hands to onStream
TextMsg(content) == [type |-> "text", shape |-> "string", str |-> content, parts |-> <<>>]
AssistantArrayMsg(parts) == [type |-> "assistant", shape |-> "array", str |-> Empty, parts |-> parts]
AssistantStringMsg(content) == [type |-> "assistant", shape |-> "string", str |-> content, parts |-> <<>>]
OtherMsg == [type |-> "tool_use", shape |-> "none", str |-> Empty, parts |-> <<>>]

StreamMessages ==
    { TextMsg(Run("a", 3)),
      AssistantArrayMsg(<<Run("b", 2500), Empty>>),
      TextMsg(Empty) }

\* handleChunk, lines 727-740: the text of a stream message
ExtractText(msg) ==
    IF msg.type = "text" /\ msg.shape = "string" /\ msg.str # Empty THEN msg.str
    ELSE IF msg.type = "assistant" /\ msg.shape = "array" THEN TJoin(msg.parts)
    ELSE IF msg.type = "assistant" /\ msg.shape = "string" THEN msg.str
    ELSE Empty

\* what the placeholder can show
ShowThinking == [kind |-> "thinking", text |-> Empty, frame |-> 0]
ShowFrame(i) == [kind |-> "frame", text |-> Empty, frame |-> i]
ShowText(T) == [kind |-> "text", text |-> T, frame |-> 0]
ShowError == [kind |-> "error", text |-> Empty, frame |-> 0]
ShowNothing == [kind |-> "none", text |-> Empty, frame |-> 0]

\* the retry configuration of the plugin (retryConfig) in the stream runs
StreamRetryOptions ==
    { [maxRetries |-> Some(1), baseDelay |-> None, maxDelay |-> Some(1000), onRetry |-> TRUE] }

\* a withRetry around a Slack call, with what the call carries
Edit(kind, show) ==
    Some([kind |-> kind, show |-> show, task |-> RetryTaskStart, content |-> Empty])

\* updateMessage(state, content): the chat.update it issues
UpdateEdit(content) ==
    Some([kind |-> "flush", show |-> ShowText(TruncateText(content)),
          task |-> RetryTaskStart, content |-> content])

\* finalizeMessage(state, content): the chat.update it issues
FinalizeEdit(content) ==
    Some([kind |-> "final", show |-> ShowText(FinalizeText(content)),
          task |-> RetryTaskStart, content |-> content])

\* no turn has begun
StreamIdle ==
    /\ pc = "start"
    /\ sExit = "none"
    /\ activeStreams = {}
    /\ streamState = [messageTs |-> 0, isFinalized |-> FALSE]
    /\ buffer = Empty
    /\ lastFlush = 0
    /\ finalizeTimer = None
    /\ hpc = "idle"
    /\ hNow = 0
    /\ hEdit = None
    /\ fEdit = None
    /\ mEdit = None
    /\ visible = ShowNothing
    /\ sChunks = 0
    /\ sAllText = Empty
    /\ sFinalEdits = 0
    /\ sFinalBy = "none"
    /\ sFinalText = None
    /\ sLastArrival = 0
    /\ sGap = FALSE
    /\ sFlushes = 0
    /\ sLate = {}
    /\ sNetFail = FALSE
    /\ sFinalFailed = FALSE
    /\ sLost = FALSE

\* finalizeMessage, lines 940-941: the guard, and the flag set before the await
finalizeMessageEntryMut(state) == state
finalizeMessageEntry(state) == [state EXCEPT !.isFinalized = TRUE]

\* the finally block, line 898: activeStreams.delete(sessionKey)
CloseStreamMut(streams, key) == streams
CloseStream(streams, key) == streams \ {key}

\* `buffer || response`
FinalTextMut(buf, response) == response
FinalText(buf, response) == IF buf # Empty THEN buf ELSE response

\* lines 765-770: clearTimeout, setTimeout(.., 2000)
ResetFinalizeTimer(t) == Some(t + FINALIZE_MS)

\* now - lastFlush > IDLE_SPLIT_MS
IdleGapMut(t, flushed) == t - flushed > 0
IdleGapLateMut(t, flushed) == t - flushed > 2 * IDLE_SPLIT_MS
IdleGap(t, flushed) == t - flushed > IDLE_SPLIT_MS

\* handleChunk, lines 744-746: stop the typing animation once content flows
StopOnContentMut(S, R, key) == [s |-> S, r |-> R]
StopOnContent(S, R, key) == stopTyping(S, R, key)

\* buffer.length >= EDIT_THRESHOLD
ReachesThresholdMut(buf) == TLen(buf) >= 2 * EDIT_THRESHOLD
ReachesThreshold(buf) == TLen(buf) >= EDIT_THRESHOLD

\* the final result of ctx.inject: the whole text the producer streamed, or,
\* when it streamed no text, a text it only returns (possibly "")
Responses(all) == IF all # Empty THEN {all} ELSE {Run("r", 5), Empty}

\* a chat.update is issued for an edit of this kind: it is late when the
\* session is already finalized and it is not the final edit itself
LateIssue(kind, state) ==
    IF state.isFinalized /\ kind # "final" THEN sLate \cup {kind} ELSE sLate

Sleeping(e) == IsSome(e) /\ Get(e).task.phase = "sleeping"
Calling(e) == IsSome(e) /\ Get(e).task.phase = "calling"

\* handleMessage, lines 691-705: the StreamState is registered, say() is awaited
HandleMessage ==
    /\ pc = "start"
    /\ activeStreams' = activeStreams \cup {SessionKey}
    /\ pc' = "say"
    /\ UNCHANGED <<dmVars, turnVars, pairingVars, retryVars, now, typingVars, sExit, streamState, buffer, lastFlush,
                   finalizeTimer,
                   hpc, hNow, hEdit, fEdit, mEdit, visible, sChunks, sAllText, sLastArrival,
                   sGap, sFlushes,
                   sFinalEdits, sFinalBy, sFinalText, sLate, sNetFail, sFinalFailed, sLost>>

\* say() resolves; lines 710-828: startTyping, the closure's locals, then the
\* empty-content path (chat.delete) or ctx.inject
SayResolves ==
    /\ pc = "say"
    /\ Len(tSess) < MaxTypingSessions
    /\ streamState' = [streamState EXCEPT !.messageTs = 1]
    /\ visible' = ShowThinking
    /\ LET st == startTyping(tSess, activeIndicators, SessionKey, 1, now)
       IN  /\ tSess' = st.s
           /\ activeIndicators' = st.r
    /\ tStopped' = tStopped \ {SessionKey}
    /\ buffer' = Empty
    /\ lastFlush' = now
    /\ finalizeTimer' = None
    /\ \E emptyContent \in BOOLEAN :
          IF emptyContent
          THEN pc' = "delete" /\ mEdit' = Edit("delete", ShowNothing) /\ sExit' = "empty"
          ELSE pc' = "inject" /\ mEdit' = None /\ UNCHANGED sExit
    /\ UNCHANGED <<dmVars, turnVars, pairingVars, retryVars, now,
                   tEdits, tLate, activeStreams, hpc, hNow, hEdit, fEdit,
                   sChunks, sAllText, sLastArrival, sGap, sFlushes, sFinalEdits, sFinalBy,
                   sFinalText, sLate, sNetFail, sFinalFailed, sLost>>

\* the catch block, lines 859-873: stopTyping, then the error notice
CatchBlock ==
    /\ LET st == stopTyping(tSess, activeIndicators, SessionKey)
       IN  /\ tSess' = st.s
           /\ activeIndicators' = st.r
    /\ tStopped' = tStopped \cup {SessionKey}
    /\ mEdit' = Edit("error", ShowError)
    /\ sLate' = LateIssue("error", streamState)
    /\ pc' = "errorEdit"
    /\ sExit' = "error"

\* say() rejects
SayRejects ==
    /\ pc = "say"
    /\ CatchBlock
    /\ UNCHANGED <<dmVars, turnVars, pairingVars, retryVars, now,
                   tEdits, tLate, activeStreams, streamState, buffer, lastFlush,
                   finalizeTimer, hpc, hNow, hEdit, fEdit, visible, sChunks, sAllText,
                   sLastArrival, sGap, sFlushes,
                   sFinalEdits, sFinalBy, sFinalText, sNetFail, sFinalFailed, sLost>>

\* the producer hands a fragment to onStream: handleChunk up to its first
\* await or its end
ChunkArrives ==
    /\ pc = "inject"
    /\ hpc = "idle"
    /\ sChunks < MaxChunks
    /\ \E msg \in StreamMessages :
          LET text == ExtractText(msg)
              buf == TCat(buffer, text)
              st == StopOnContent(tSess, activeIndicators, SessionKey)
          IN  /\ sChunks' = sChunks + 1
              /\ sAllText' = TCat(sAllText, text)
              /\ sLastArrival' = IF text = Empty THEN sLastArrival ELSE now
              /\ sGap' = (sGap \/ (text # Empty /\ now - sLastArrival > IDLE_SPLIT_MS))
              /\ IF streamState.isFinalized \/ text = Empty
                 THEN UNCHANGED <<tSess, activeIndicators, tStopped, buffer, lastFlush,
                                  finalizeTimer, hpc, hNow, hEdit, sFlushes>>
                 ELSE /\ tSess' = st.s
                      /\ activeIndicators' = st.r
                      /\ tStopped' = tStopped \cup {SessionKey}
                      /\ buffer' = buf
                      /\ IF IdleGap(now, lastFlush) /\ TLen(buf) > 0
                         THEN /\ hpc' = "idleFlush"
                              /\ hNow' = now
                              /\ hEdit' = UpdateEdit(buf)
                              /\ sFlushes' = sFlushes + 1
                              /\ UNCHANGED <<lastFlush, finalizeTimer>>
                         ELSE /\ lastFlush' = now
                              /\ IF ReachesThreshold(buf)
                                 THEN /\ hpc' = "threshFlush"
                                      /\ hNow' = now
                                      /\ hEdit' = UpdateEdit(buf)
                                      /\ sFlushes' = sFlushes + 1
                                      /\ UNCHANGED finalizeTimer
                                 ELSE /\ finalizeTimer' = ResetFinalizeTimer(now)
                                      /\ UNCHANGED <<hpc, hNow, hEdit, sFlushes>>
    /\ UNCHANGED <<dmVars, turnVars, pairingVars, retryVars, now,
                   tEdits, tLate, pc, sExit, activeStreams, streamState,
                   fEdit, mEdit,
                   visible, sFinalEdits, sFinalBy, sFinalText, sLate, sNetFail, sFinalFailed,
                   sLost>>

\* updateMessage has returned to handleChunk (its edit resolved, or failed
\* and was logged): the rest of handleChunk, lines 754-770
HandlerResumes ==
    /\ IF hpc = "idleFlush"
       THEN /\ buffer' = Empty
            /\ lastFlush' = hNow
            /\ IF ReachesThreshold(Empty) /\ ~streamState.isFinalized
               THEN /\ hpc' = "threshFlush"
                    /\ hEdit' = UpdateEdit(Empty)
                    /\ sFlushes' = sFlushes + 1
                    /\ UNCHANGED <<hNow, finalizeTimer>>
               ELSE /\ finalizeTimer' = ResetFinalizeTimer(now)
                    /\ hpc' = "idle"
                    /\ hNow' = 0
                    /\ hEdit' = None
                    /\ UNCHANGED sFlushes
       ELSE /\ finalizeTimer' = ResetFinalizeTimer(now)
            /\ hpc' = "idle"
            /\ hNow' = 0
            /\ hEdit' = None
            /\ UNCHANGED <<buffer, lastFlush, sFlushes>>

\* updateMessage, lines 928-930: the catch logs the failure and updateMessage
\* returns to handleChunk
HandlerAfterFailureMut ==
    /\ hpc' = "idle"
    /\ hNow' = 0
    /\ hEdit' = None
    /\ UNCHANGED <<buffer, lastFlush, finalizeTimer, sFlushes>>

HandlerAfterFailure == HandlerResumes

\* the chat.update of handleChunk's updateMessage resolves
HandlerEditResolves ==
    /\ Calling(hEdit)
    /\ visible' = Get(hEdit).show
    /\ HandlerResumes
    /\ UNCHANGED <<dmVars, turnVars, pairingVars, retryVars, now,
                   typingVars, pc, sExit, activeStreams, streamState, fEdit,
                   mEdit,
                   sChunks, sAllText, sLastArrival, sGap, sFinalEdits, sFinalBy, sFinalText,
                   sLate, sNetFail, sFinalFailed, sLost>>

\* the chat.update of handleChunk's updateMessage rejects
HandlerEditRejects ==
    /\ Calling(hEdit)
    /\ sNetFail' = TRUE
    /\ UNCHANGED sFinalFailed
    /\ \E error \in NetErrors, jitter \in JitterChoices(OptBaseDelay(rOpts)) :
          IF RetryTaskThrows(Get(hEdit).task, error, rOpts)
          THEN /\ HandlerAfterFailure
               /\ sLost' = (sLost \/ buffer' # buffer)
          ELSE /\ UNCHANGED sLost
               /\ hEdit' = Some([Get(hEdit) EXCEPT !.task =
                                   RetryTaskSleep(Get(hEdit).task, error, jitter, rOpts, now)])
               /\ UNCHANGED <<buffer, lastFlush, finalizeTimer, hpc, hNow, sFlushes>>
    /\ UNCHANGED <<dmVars, turnVars, pairingVars, retryVars, now,
                   typingVars, pc, sExit, activeStreams, streamState, fEdit,
                   mEdit,
                   visible, sChunks, sAllText, sLastArrival, sGap, sFinalEdits, sFinalBy,
                   sFinalText, sLate>>

\* the backoff sleep of handleChunk's updateMessage ends: chat.update again
HandlerEditWakes ==
    /\ Sleeping(hEdit)
    /\ Get(hEdit).task.wake = now
    /\ hEdit' = Some([Get(hEdit) EXCEPT !.task = RetryTaskWake(Get(hEdit).task)])
    /\ sLate' = LateIssue("flush", streamState)
    /\ UNCHANGED <<dmVars, turnVars, pairingVars, retryVars, now,
                   typingVars, pc, sExit, activeStreams, streamState, buffer,
                   lastFlush,
                   finalizeTimer, hpc, hNow, fEdit, mEdit, visible, sChunks, sAllText,
                   sLastArrival, sGap, sFlushes,
                   sFinalEdits, sFinalBy, sFinalText, sNetFail, sFinalFailed, sLost>>

\* the finalize timer fires, lines 766-770
TimerFires ==
    /\ finalizeTimer = Some(now)
    /\ finalizeTimer' = None
    /\ IF TLen(buffer) > 0 /\ ~streamState.isFinalized
       THEN /\ streamState' = finalizeMessageEntry(streamState)
            /\ fEdit' = FinalizeEdit(buffer)
            /\ sFinalEdits' = sFinalEdits + 1
            /\ sFinalBy' = "timer"
            /\ sFinalText' = Some(buffer)
       ELSE UNCHANGED <<streamState, fEdit, sFinalEdits, sFinalBy, sFinalText>>
    /\ UNCHANGED <<dmVars, turnVars, pairingVars, retryVars, now,
                   typingVars, pc, sExit, activeStreams, buffer, lastFlush,
                   hpc, hNow,
                   hEdit, mEdit, visible, sChunks, sAllText, sLastArrival, sGap, sFlushes,
                   sLate, sNetFail, sFinalFailed, sLost>>

\* the chat.update of the timer's finalizeMessage resolves
TimerEditResolves ==
    /\ Calling(fEdit)
    /\ visible' = Get(fEdit).show
    /\ fEdit' = None
    /\ UNCHANGED <<dmVars, turnVars, pairingVars, retryVars, now,
                   typingVars, pc, sExit, activeStreams, streamState, buffer,
                   lastFlush,
                   finalizeTimer, hpc, hNow, hEdit, mEdit, sChunks, sAllText, sLastArrival,
                   sGap, sFlushes, sFinalEdits, sFinalBy, sFinalText,
                   sLate, sNetFail, sFinalFailed, sLost>>

\* the chat.update of the timer's finalizeMessage rejects
TimerEditRejects ==
    /\ Calling(fEdit)
    /\ sNetFail' = TRUE
    /\ \E error \in NetErrors, jitter \in JitterChoices(OptBaseDelay(rOpts)) :
          IF RetryTaskThrows(Get(fEdit).task, error, rOpts)
          THEN fEdit' = None /\ sFinalFailed' = TRUE /\ UNCHANGED sLost
          ELSE /\ fEdit' = Some([Get(fEdit) EXCEPT !.task =
                                   RetryTaskSleep(Get(fEdit).task, error, jitter, rOpts, now)])
               /\ UNCHANGED <<sFinalFailed, sLost>>
    /\ UNCHANGED <<dmVars, turnVars, pairingVars, retryVars, now,
                   typingVars, pc, sExit, activeStreams, streamState, buffer,
                   lastFlush,
                   finalizeTimer, hpc, hNow, hEdit, mEdit, visible, sChunks, sAllText,
                   sLastArrival, sGap, sFlushes,
                   sFinalEdits, sFinalBy, sFinalText, sLate>>

\* the backoff sleep of the timer's finalizeMessage ends: chat.update again
TimerEditWakes ==
    /\ Sleeping(fEdit)
    /\ Get(fEdit).task.wake = now
    /\ fEdit' = Some([Get(fEdit) EXCEPT !.task = RetryTaskWake(Get(fEdit).task)])
    /\ UNCHANGED <<dmVars, turnVars, pairingVars, retryVars, now,
                   typingVars, pc, sExit, activeStreams, streamState, buffer,
                   lastFlush,
                   finalizeTimer, hpc, hNow, hEdit, mEdit, visible, sChunks, sAllText,
                   sLastArrival, sGap, sFlushes,
                   sFinalEdits, sFinalBy, sFinalText, sLate, sNetFail, sFinalFailed, sLost>>

\* ctx.inject resolves; lines 830-836
InjectResolves ==
    /\ pc = "inject"
    /\ hpc = "idle"
    /\ LET st == stopTyping(tSess, activeIndicators, SessionKey)
       IN  /\ tSess' = st.s
           /\ activeIndicators' = st.r
    /\ tStopped' = tStopped \cup {SessionKey}
    /\ finalizeTimer' = None
    /\ sExit' = "ok"
    /\ \E response \in Responses(sAllText) :
          IF ~streamState.isFinalized
          THEN /\ streamState' = finalizeMessageEntry(streamState)
               /\ mEdit' = FinalizeEdit(FinalText(buffer, response))
               /\ sFinalEdits' = sFinalEdits + 1
               /\ sFinalBy' = "completion"
               /\ sFinalText' = Some(FinalText(buffer, response))
               /\ pc' = "finalize"
          ELSE /\ pc' = "react"
               /\ UNCHANGED <<streamState, mEdit, sFinalEdits, sFinalBy, sFinalText>>
    /\ UNCHANGED <<dmVars, turnVars, pairingVars, retryVars, now,
                   tEdits, tLate, activeStreams, buffer, lastFlush, hpc, hNow,
                   hEdit, fEdit, visible, sChunks, sAllText, sLastArrival, sGap, sFlushes,
                   sLate, sNetFail, sFinalFailed, sLost>>

\* ctx.inject rejects: the catch block
InjectRejects ==
    /\ pc = "inject"
    /\ hpc = "idle"
    /\ CatchBlock
    /\ UNCHANGED <<dmVars, turnVars, pairingVars, retryVars, now,
                   tEdits, tLate, activeStreams, streamState, buffer, lastFlush,
                   finalizeTimer, hpc, hNow, hEdit, fEdit, visible, sChunks, sAllText,
                   sLastArrival, sGap, sFlushes,
                   sFinalEdits, sFinalBy, sFinalText, sNetFail, sFinalFailed, sLost>>

\* the withRetry handleMessage awaits has returned or thrown (every one is
\* in a try/catch or ends the function): what handleMessage does next
MainResumes ==
    /\ mEdit' = None
    /\ UNCHANGED sExit
    /\ IF pc = "finalize" THEN pc' = "react" /\ UNCHANGED activeStreams
       ELSE IF pc = "errorEdit" THEN pc' = "reactErr" /\ UNCHANGED activeStreams
       ELSE pc' = "done" /\ activeStreams' = CloseStream(activeStreams, SessionKey)

\* the Slack call handleMessage awaits resolves (an update of message ""
\* cannot)
MainEditResolves ==
    /\ Calling(mEdit)
    /\ streamState.messageTs # 0
    /\ visible' = Get(mEdit).show
    /\ MainResumes
    /\ UNCHANGED <<dmVars, turnVars, pairingVars, retryVars, now,
                   typingVars, streamState, buffer, lastFlush, finalizeTimer,
                   hpc, hNow, hEdit, fEdit, sChunks, sAllText, sLastArrival, sGap, sFlushes,
                   sFinalEdits, sFinalBy, sFinalText, sLate, sNetFail, sFinalFailed, sLost>>

\* the Slack call handleMessage awaits rejects
MainEditRejects ==
    /\ Calling(mEdit)
    /\ sNetFail' = TRUE
    /\ \E error \in NetErrors, jitter \in JitterChoices(OptBaseDelay(rOpts)) :
          IF RetryTaskThrows(Get(mEdit).task, error, rOpts)
          THEN /\ MainResumes
               /\ sFinalFailed' = (sFinalFailed \/ Get(mEdit).kind = "final")
               /\ UNCHANGED sLost
          ELSE /\ UNCHANGED <<sFinalFailed, sLost>>
               /\ mEdit' = Some([Get(mEdit) EXCEPT !.task =
                                   RetryTaskSleep(Get(mEdit).task, error, jitter, rOpts, now)])
               /\ UNCHANGED <<pc, sExit, activeStreams>>
    /\ UNCHANGED <<dmVars, turnVars, pairingVars, retryVars, now,
                   typingVars, streamState, buffer, lastFlush, finalizeTimer,
                   hpc, hNow, hEdit, fEdit, visible, sChunks, sAllText, sLastArrival, sGap,
                   sFlushes, sFinalEdits, sFinalBy, sFinalText, sLate>>

\* the backoff sleep of the call handleMessage awaits ends: the call again
MainEditWakes ==
    /\ Sleeping(mEdit)
    /\ Get(mEdit).task.wake = now
    /\ mEdit' = Some([Get(mEdit) EXCEPT !.task = RetryTaskWake(Get(mEdit).task)])
    /\ sLate' = LateIssue(Get(mEdit).kind, streamState)
    /\ UNCHANGED <<dmVars, turnVars, pairingVars, retryVars, now,
                   typingVars, pc, sExit, activeStreams, streamState, buffer,
                   lastFlush,
                   finalizeTimer, hpc, hNow, hEdit, fEdit, visible, sChunks, sAllText,
                   sLastArrival, sGap, sFlushes,
                   sFinalEdits, sFinalBy, sFinalText, sNetFail, sFinalFailed, sLost>>

\* the reaction calls (each in a try/catch) are over; finally, line 898
ReactionsDone ==
    /\ pc \in {"react", "reactErr"}
    /\ pc' = "done"
    /\ activeStreams' = CloseStream(activeStreams, SessionKey)
    /\ UNCHANGED <<dmVars, turnVars, pairingVars, retryVars, now, typingVars, sExit, streamState, buffer, lastFlush,
                   finalizeTimer,
                   hpc, hNow, hEdit, fEdit, mEdit, visible, sChunks, sAllText, sLastArrival,
                   sGap, sFlushes, sFinalEdits, sFinalBy, sFinalText,
                   sLate, sNetFail, sFinalFailed, sLost>>

\* the typing simulator inside the turn: its chat.update calls target the
\* turn's placeholder
StreamTypingFrame ==
    UNCHANGED <<dmVars, turnVars, pairingVars, retryVars, now,
                pc, sExit, activeStreams, streamState, buffer, lastFlush,
    finalizeTimer,
                hpc, hNow, hEdit, fEdit, mEdit, sChunks, sAllText, sLastArrival, sGap,
                sFlushes, sFinalEdits, sFinalBy, sFinalText>>

StreamIntervalFires(sid) ==
    /\ IntervalFires(sid)
    /\ sLate' = IF Len(tEdits') > Len(tEdits) THEN LateIssue("typing", streamState) ELSE sLate
    /\ StreamTypingFrame
    /\ UNCHANGED <<visible, sNetFail, sFinalFailed, sLost>>

StreamTypingEditResolves(i) ==
    /\ TypingEditResolves(i)
    /\ visible # ShowNothing     \* a deleted message cannot be updated
    /\ visible' = ShowFrame(tEdits[i].frame)
    /\ StreamTypingFrame
    /\ UNCHANGED <<sLate, sNetFail, sFinalFailed, sLost>>

StreamTypingEditRejects(i) ==
    /\ TypingEditRejects(i)
    /\ sNetFail' = TRUE
    /\ StreamTypingFrame
    /\ UNCHANGED <<visible, sLate, sFinalFailed, sLost>>

StreamTypingEditWakes(i) ==
    /\ TypingEditWakes(i)
    /\ sLate' = LateIssue("typing", streamState)
    /\ StreamTypingFrame
    /\ UNCHANGED <<visible, sNetFail, sFinalFailed, sLost>>

\* the times at which a timer or a backoff sleep of the turn is due
StreamDue ==
    TypingDue
    \cup (IF IsSome(finalizeTimer) THEN {Get(finalizeTimer)} ELSE {})
    \cup {Get(e).task.wake : e \in {x \in {hEdit, fEdit, mEdit} : Sleeping(x)}}

StreamAdvance ==
    /\ pc \notin {"start", "say"}
    /\ \A d \in StreamDue : d > now
    /\ NextInstant(StreamDue, IDLE_SPLIT_MS) <= MaxStreamTime
    /\ now' = NextInstant(StreamDue, IDLE_SPLIT_MS)
    /\ UNCHANGED <<dmVars, turnVars, pairingVars, retryVars, typingVars, streamVars>>

(***************************************************************************)
(* The pairing module (src/unnamed/part_003): the pending pairing          *)
(* requests and the two rate limiters.                                     *)
(***************************************************************************)
PAIRING_CODE_TTL_MS == 900000      \* 15 * 60 * 1000
CLAIM_RATE_LIMIT_WINDOW_MS == 60000      \* 60 * 1000
CLAIM_RATE_LIMIT_MAX_ATTEMPTS == 5
REQUEST_RATE_LIMIT_WINDOW_MS == 300000  \* 5 * 60 * 1000
REQUEST_RATE_LIMIT_MAX == 3

\* Slack user ids; the source identifiers of claims are user ids as well
Users == {"U1", "U2"}

\* the codes generateCode may draw
Codes == {"A", "B"}

\* the code arguments callers pass, and code.trim().toUpperCase()
RawCodes == {"A", " b "}
NormalizeCode(raw) == IF raw = " b " THEN "B" ELSE raw

\* JavaScript truthiness of an optional string
Truthy(o) == o # None /\ o[1] # ""

\* the sources that claim, and the optional sourceId and claimingUserId
\* arguments of claimPairingCode
ClaimSources == {"U1"}
SourceIds == {None} \cup {Some(u) : u \in ClaimSources}
ClaimingUserIds == {None, Some("")} \cup {Some(u) : u \in Users}

\* now - windowStart > WINDOW
WindowExpired(t, windowStart, window) == t - windowStart > window

\* checkRequestRateLimit(userId) on the map A at time t
checkRequestRateLimit(A, userId, t) ==
    LET attempt == A[userId]
    IN  IF attempt = None
           \/ WindowExpired(t, attempt[1].windowStart, REQUEST_RATE_LIMIT_WINDOW_MS)
        THEN [ok |-> TRUE,
              a |-> [A EXCEPT ![userId] = Some([count |-> 1, windowStart |-> t])]]
        ELSE [ok |-> attempt[1].count + 1 <= REQUEST_RATE_LIMIT_MAX,
              a |-> [A EXCEPT ![userId] = Some([attempt[1] EXCEPT !.count = @ + 1])]]

\* checkClaimRateLimit(sourceId) on the map A at time t
checkClaimRateLimitMut(A, sourceId, t) ==
    LET attempt == A[sourceId]
    IN  IF attempt = None
           \/ WindowExpired(t, attempt[1].windowStart, CLAIM_RATE_LIMIT_WINDOW_MS)
        THEN [ok |-> TRUE,
              a |-> [A EXCEPT ![sourceId] = Some([count |-> 1, windowStart |-> t])]]
        ELSE [ok |-> attempt[1].count + 1 < CLAIM_RATE_LIMIT_MAX_ATTEMPTS,
              a |-> [A EXCEPT ![sourceId] = Some([attempt[1] EXCEPT !.count = @ + 1])]]

checkClaimRateLimit(A, sourceId, t) ==
    LET attempt == A[sourceId]
    IN  IF attempt = None
           \/ WindowExpired(t, attempt[1].windowStart, CLAIM_RATE_LIMIT_WINDOW_MS)
        THEN [ok |-> TRUE,
              a |-> [A EXCEPT ![sourceId] = Some([count |-> 1, windowStart |-> t])]]
        ELSE [ok |-> attempt[1].count + 1 <= CLAIM_RATE_LIMIT_MAX_ATTEMPTS,
              a |-> [A EXCEPT ![sourceId] = Some([attempt[1] EXCEPT !.count = @ + 1])]]

\* Date.now() - request.createdAt > PAIRING_CODE_TTL_MS
PairingExpired(t, request) == t - request.createdAt > PAIRING_CODE_TTL_MS

\* the code of the pending request of a user, if there is one
PendingCodeOf(P, slackUserId) ==
    {c \in Codes : P[c] # None /\ P[c][1].slackUserId = slackUserId}

\* generateUniqueCode(): a drawn code no pending request has
FreshCodes(P) == {c \in Codes : P[c] = None}

\* createPairingRequest(slackUserId, slackUsername) at time t, generateCode
\* drawing `drawn`
createPairingRequest(P, slackUserId, t, drawn) ==
    IF PendingCodeOf(P, slackUserId) # {}
    THEN LET code == CHOOSE c \in PendingCodeOf(P, slackUserId) : TRUE
         IN  [p |-> [P EXCEPT ![code] = Some([P[code][1] EXCEPT !.createdAt = t])],
              code |-> code, created |-> FALSE]
    ELSE [p |-> [P EXCEPT ![drawn] = Some([code |-> drawn, slackUserId |-> slackUserId,
                                          createdAt |-> t, claimed |-> FALSE])],
          code |-> drawn, created |-> TRUE]

\* claimPairingCode, lines 184-186: request.claimed = true; delete
MarkClaimedMut(P, code) == P
MarkClaimed(P, code) == [P EXCEPT ![code] = None]

\* claimPairingCode(code, sourceId, claimingUserId) at time t
claimPairingCode(P, A, raw, sourceId, claimingUserId, t) ==
    LET rate == IF Truthy(sourceId) THEN checkClaimRateLimit(A, sourceId[1], t)
                ELSE [ok |-> TRUE, a |-> A]
        normalizedCode == NormalizeCode(raw)
        request == P[normalizedCode]
    IN  IF ~rate.ok
        THEN [p |-> P, a |-> rate.a, request |-> None,
              error |-> Some("Rate limited. Try again in 1 minute.")]
        ELSE IF request = None
        THEN [p |-> P, a |-> rate.a, request |-> None,
              error |-> Some("Invalid or expired pairing code")]
        ELSE IF PairingExpired(t, request[1])
        THEN [p |-> [P EXCEPT ![normalizedCode] = None], a |-> rate.a, request |-> None,
              error |-> Some("Pairing code has expired")]
        ELSE IF request[1].claimed
        THEN [p |-> P, a |-> rate.a, request |-> None,
              error |-> Some("Pairing code has already been claimed")]
        ELSE IF Truthy(claimingUserId) /\ request[1].slackUserId # claimingUserId[1]
        THEN [p |-> P, a |-> rate.a, request |-> None,
              error |-> Some("This pairing code was not generated for your account")]
        ELSE [p |-> MarkClaimed(P, normalizedCode), a |-> rate.a,
              request |-> Some([request[1] EXCEPT !.claimed = TRUE]), error |-> None]

\* getPairingRequest(code): the store afterwards
getPairingRequest(P, raw, t) ==
    LET normalizedCode == NormalizeCode(raw)
    IN  IF P[normalizedCode] # None /\ PairingExpired(t, P[normalizedCode][1])
        THEN [P EXCEPT ![normalizedCode] = None]
        ELSE P

\* listPairingRequests() and the first loop of cleanupExpiredPairings(): the
\* store afterwards
DropExpired(P, t) ==
    [c \in Codes |-> IF P[c] # None /\ PairingExpired(t, P[c][1]) THEN None ELSE P[c]]

\* the second and third loop of cleanupExpiredPairings()
DropStale(A, t, window) ==
    [u \in Users |-> IF A[u] # None /\ WindowExpired(t, A[u][1].windowStart, window)
                     THEN None ELSE A[u]]

\* nothing is pending, nobody has called a limiter
PairingIdle ==
    /\ pendingPairings = [c \in Codes |-> None]
    /\ claimAttempts = [u \in Users |-> None]
    /\ requestAttempts = [u \in Users |-> None]
    /\ pLast = [op |-> "none"]
    /\ pSpent = {}
    /\ pWon = {}
    /\ pWindows = [f \in {"claim", "request"} |-> [u \in Users |-> None]]

\* the calls a limiter entry has counted, 0 without an entry
CountOf(A, u) == IF A[u] = None THEN 0 ELSE A[u][1].count

\* createPairingRequest(slackUserId, _)
CreatePairingRequest(slackUserId) ==
    \E drawn \in Codes :
        /\ PendingCodeOf(pendingPairings, slackUserId) = {} => drawn \in FreshCodes(pendingPairings)
        /\ LET res == createPairingRequest(pendingPairings, slackUserId, now, drawn)
           IN  /\ pendingPairings' = res.p
               /\ pLast' = [op |-> "create", code |-> res.code, user |-> slackUserId,
                            created |-> res.created]
               /\ pSpent' = IF res.created THEN pSpent \ {res.code} ELSE pSpent
        /\ UNCHANGED <<claimAttempts, requestAttempts, pWon, pWindows>>

\* claimPairingCode(code, sourceId, claimingUserId)
ClaimPairingCode(raw, sourceId, claimingUserId) ==
    /\ Truthy(sourceId) => CountOf(claimAttempts, sourceId[1]) < MaxClaimCalls
    /\ LET code == NormalizeCode(raw)
           res == claimPairingCode(pendingPairings, claimAttempts, raw, sourceId,
                                   claimingUserId, now)
       IN  /\ pendingPairings' = res.p
           /\ claimAttempts' = res.a
           /\ pLast' = [op |-> "claim", code |-> code, claimingUserId |-> claimingUserId,
                        ok |-> res.request # None, error |-> res.error,
                        before |-> pendingPairings[code],
                        spentBefore |-> code \in pSpent, wonBefore |-> code \in pWon]
           /\ pSpent' = IF res.request # None THEN pSpent \cup {code} ELSE pSpent
           /\ pWon' = IF res.request # None THEN pWon \cup {code} ELSE pWon
    /\ UNCHANGED <<requestAttempts, pWindows>>

\* getPairingRequest(code)
GetPairingRequest(raw) ==
    /\ pendingPairings' = getPairingRequest(pendingPairings, raw, now)
    /\ pLast' = [op |-> "other"]
    /\ UNCHANGED <<claimAttempts, requestAttempts, pSpent, pWon, pWindows>>

\* listPairingRequests()
ListPairingRequests ==
    /\ pendingPairings' = DropExpired(pendingPairings, now)
    /\ pLast' = [op |-> "other"]
    /\ UNCHANGED <<claimAttempts, requestAttempts, pSpent, pWon, pWindows>>

\* cleanupExpiredPairings()
CleanupExpiredPairings ==
    /\ pendingPairings' = DropExpired(pendingPairings, now)
    /\ claimAttempts' = DropStale(claimAttempts, now, CLAIM_RATE_LIMIT_WINDOW_MS)
    /\ requestAttempts' = DropStale(requestAttempts, now, REQUEST_RATE_LIMIT_WINDOW_MS)
    /\ pLast' = [op |-> "other"]
    /\ UNCHANGED <<pSpent, pWon, pWindows>>

\* The window a limiter call at time t falls in, by the calls made so far
\* (the windows are the documented ones: 5 calls in 60 s, 3 in 5 minutes):
\* the first call, and the first call later than `window` after the start of
\* the current window, start a window; calls counts the calls in the window,
\* full tells whether the window before it had more calls than max.
WindowAfterCall(w, t, window, max) ==
    IF w = None THEN Some([start |-> t, calls |-> 1, full |-> FALSE])
    ELSE IF t - w[1].start > window
    THEN Some([start |-> t, calls |-> 1, full |-> w[1].calls > max])
    ELSE Some([w[1] EXCEPT !.calls = @ + 1])

\* checkClaimRateLimit(sourceId), called on its own
CheckClaimRateLimit(sourceId) ==
    /\ CountOf(claimAttempts, sourceId) < MaxClaimCalls
    /\ LET res == checkClaimRateLimit(claimAttempts, sourceId, now)
       IN  /\ claimAttempts' = res.a
           /\ pLast' = [op |-> "checkClaim", source |-> sourceId, ok |-> res.ok]
    /\ pWindows' = [pWindows EXCEPT !["claim"][sourceId] =
                       WindowAfterCall(@, now, 60 * 1000, 5)]
    /\ UNCHANGED <<pendingPairings, requestAttempts, pSpent, pWon>>

\* checkRequestRateLimit(userId), called on its own
CheckRequestRateLimit(userId) ==
    /\ CountOf(requestAttempts, userId) < MaxRequestCalls
    /\ LET res == checkRequestRateLimit(requestAttempts, userId, now)
       IN  /\ requestAttempts' = res.a
           /\ pLast' = [op |-> "checkRequest", source |-> userId, ok |-> res.ok]
    /\ pWindows' = [pWindows EXCEPT !["request"][userId] =
                       WindowAfterCall(@, now, 5 * 60 * 1000, 3)]
    /\ UNCHANGED <<pendingPairings, claimAttempts, pSpent, pWon>>

\* the clock moves on to the next of the given instants
LaterInstants(instants) == {t \in instants : t > now}

(***************************************************************************)
(* index.ts: two turns of handleMessage on the same session key, the       *)
(* second beginning when the first has begun.  Of a turn only what it does *)
(* to the stream registry and to the typing registry is followed.          *)
(***************************************************************************)
Turns == {1, 2}

\* a turn between its activeStreams.set and its activeStreams.delete
InProgress == {"say", "inject", "closing"}

\* no turn has begun
TurnsIdle ==
    /\ turns = [t \in Turns |-> [pc |-> "start", chunks |-> 0]]
    /\ streamOwner = 0

\* line 701: activeStreams.set(sessionKey, streamState)
RegisterStream(owner, t) == t

\* lines 897-899: activeStreams.delete(sessionKey)
UnregisterStream(owner, t) == 0

\* handleMessage of turn t up to `await say(...)`, lines 691-705
TurnBegins(t) ==
    /\ turns[t].pc = "start"
    /\ t = 2 => turns[1].pc # "start"
    /\ turns' = [turns EXCEPT ![t].pc = "say"]
    /\ streamOwner' = RegisterStream(streamOwner, t)
    /\ UNCHANGED typingVars

\* say() of turn t resolves: messageTs is assigned, startTyping, ctx.inject
TurnSayResolves(t) ==
    /\ turns[t].pc = "say"
    /\ Len(tSess) < MaxTypingSessions
    /\ LET st == startTyping(tSess, activeIndicators, SessionKey, t, now)
       IN  /\ tSess' = st.s
           /\ activeIndicators' = st.r
    /\ tStopped' = tStopped \ {SessionKey}
    /\ turns' = [turns EXCEPT ![t].pc = "inject"]
    /\ UNCHANGED <<tEdits, tLate, streamOwner>>

\* the stopTyping(sessionKey) of turn t
TurnStopsTyping ==
    /\ LET st == stopTyping(tSess, activeIndicators, SessionKey)
       IN  /\ tSess' = st.s
           /\ activeIndicators' = st.r
    /\ tStopped' = tStopped \cup {SessionKey}
    /\ UNCHANGED <<tEdits, tLate>>

\* the producer of turn t hands a fragment with text to handleChunk
TurnChunk(t) ==
    /\ turns[t].pc = "inject"
    /\ turns[t].chunks < MaxChunks
    /\ TurnStopsTyping
    /\ turns' = [turns EXCEPT ![t].chunks = @ + 1]
    /\ UNCHANGED streamOwner

\* say() or ctx.inject of turn t rejects (the catch block), or ctx.inject
\* resolves (lines 830-832): stopTyping(sessionKey), then the awaited edits
TurnSettles(t) ==
    /\ turns[t].pc \in {"say", "inject"}
    /\ TurnStopsTyping
    /\ turns' = [turns EXCEPT ![t].pc = "closing"]
    /\ UNCHANGED streamOwner

\* the finally block of turn t
TurnCloses(t) ==
    /\ turns[t].pc = "closing"
    /\ turns' = [turns EXCEPT ![t].pc = "done"]
    /\ streamOwner' = UnregisterStream(streamOwner, t)
    /\ UNCHANGED typingVars

(***************************************************************************)
(* index.ts and the pairing module: direct messages under the DM policy    *)
(* "pairing" (shouldRespond, the head of handleMessage), the allowlist     *)
(* (isUserAllowed, approveUser) and the claimOwnership extension.          *)
(***************************************************************************)
\* the texts of direct messages: ordinary text, and the two codes as a user
\* types them
DMTexts == {"hello", "A", " b "}

\* line 513: /^[A-Z2-9]{8}$/.test(trimmed)
LooksLikeCode(trimmed) == trimmed \in Codes

\* isUserAllowed(ctx, userId)
isUserAllowedMut(F, userId) == TRUE
isUserAllowed(F, userId) == "*" \in F \/ userId \in F

\* approveUser(ctx, userId): the allowlist the configuration holds afterwards.
\* stored: the pushed entry is in the configuration the host hands out from
\* then on (it is when saveConfig resolves; when saveConfig rejects it is
\* only if getConfig hands out the object that was pushed to)
approveUser(F, userId, stored) ==
    IF userId \in F THEN F
    ELSE IF stored THEN F \cup {userId} ELSE F

\* shouldRespond, lines 511-538: the claim a message of a sender who is not
\* allowed makes when its text looks like a code
DMClaim(P, CA, user, text, t) ==
    LET trimmed == NormalizeCode(text)
    IN  IF LooksLikeCode(trimmed)
        THEN claimPairingCode(P, CA, trimmed, Some(user), Some(user), t)
        ELSE [p |-> P, a |-> CA, request |-> None, error |-> None]

\* shouldRespond(message, context, config) for a direct message under the
\* policy "pairing": the verdict, message.__pairingApproved, whether the
\* pairing message was posted, and the stores afterwards
shouldRespondDM(F, P, CA, RA, user, text, t, drawn, stored) ==
    IF isUserAllowed(F, user)
    THEN [respond |-> TRUE, approved |-> FALSE, prompt |-> FALSE,
          f |-> F, p |-> P, ca |-> CA, ra |-> RA]
    ELSE LET claim == DMClaim(P, CA, user, text, t)
             rate == checkRequestRateLimit(RA, user, t)
         IN  IF claim.request # None
             THEN [respond |-> TRUE, approved |-> TRUE, prompt |-> FALSE,
                   f |-> approveUser(F, claim.request[1].slackUserId, stored),
                   p |-> claim.p, ca |-> claim.a, ra |-> RA]
             ELSE IF ~rate.ok
             THEN [respond |-> FALSE, approved |-> FALSE, prompt |-> FALSE,
                   f |-> F, p |-> claim.p, ca |-> claim.a, ra |-> rate.a]
             ELSE [respond |-> FALSE, approved |-> FALSE, prompt |-> TRUE,
                   f |-> F, p |-> createPairingRequest(claim.p, user, t, drawn).p,
                   ca |-> claim.a, ra |-> rate.a]

\* the allowlist is empty, nothing is in flight
DMIdle ==
    /\ allowFrom = {}
    /\ dmPending = {}
    /\ dmLast = [op |-> "none"]

\* handleMessage for a direct message of user, lines 626-660: shouldRespond,
\* the return after logMessage, the confirmation and the return after it;
\* otherwise the handler goes on to say() and ctx.inject
DirectMessage(user, text) ==
    \E drawn \in Codes,
       stored \in IF DMClaim(pendingPairings, claimAttempts, user, text, now).request # None
                  THEN BOOLEAN ELSE {TRUE} :
        /\ user \notin dmPending
        /\ ~isUserAllowed(allowFrom, user)
              => /\ CountOf(requestAttempts, user) < MaxRequestCalls
                 /\ LooksLikeCode(NormalizeCode(text))
                       => CountOf(claimAttempts, user) < MaxDMClaims
                 /\ drawn \in FreshCodes(DMClaim(pendingPairings, claimAttempts,
                                                user, text, now).p)
        /\ LET res == shouldRespondDM(allowFrom, pendingPairings, claimAttempts,
                                      requestAttempts, user, text, now, drawn, stored)
           IN  /\ allowFrom' = res.f
               /\ pendingPairings' = res.p
               /\ claimAttempts' = res.ca
               /\ requestAttempts' = res.ra
               /\ dmPending' = IF res.respond /\ ~res.approved
                               THEN dmPending \cup {user} ELSE dmPending
               /\ dmLast' = [op |-> "message", user |-> user,
                             listed |-> user \in allowFrom, wildcard |-> "*" \in allowFrom,
                             claimed |-> /\ user \notin allowFrom /\ "*" \notin allowFrom
                                         /\ DMClaim(pendingPairings, claimAttempts, user,
                                                    text, now).request # None,
                             confirmation |-> res.respond /\ res.approved,
                             accepted |-> res.respond /\ ~res.approved,
                             prompt |-> res.prompt]
        /\ pLast' = [op |-> "other"]
        /\ UNCHANGED <<pSpent, pWon, pWindows>>

\* the handler of an accepted message reaches ctx.inject, lines 824-828
DMInjects(user) ==
    /\ user \in dmPending
    /\ dmPending' = dmPending \ {user}
    /\ dmLast' = [op |-> "inject", user |-> user,
                  listed |-> user \in allowFrom, wildcard |-> "*" \in allowFrom]
    /\ UNCHANGED <<allowFrom, pairingVars>>

\* say() of an accepted message rejects: the catch block, no ctx.inject
DMSayRejects(user) ==
    /\ user \in dmPending
    /\ dmPending' = dmPending \ {user}
    /\ dmLast' = [op |-> "failed", user |-> user]
    /\ UNCHANGED <<allowFrom, pairingVars>>

\* slackExtension.claimOwnership(code, sourceId, claimingUserId)
ClaimOwnership(raw, sourceId, claimingUserId) ==
    \E stored \in IF claimPairingCode(pendingPairings, claimAttempts, raw, sourceId,
                                      claimingUserId, now).request # None
                  THEN BOOLEAN ELSE {TRUE} :
        /\ LET res == claimPairingCode(pendingPairings, claimAttempts, raw, sourceId,
                                       claimingUserId, now)
           IN  /\ pendingPairings' = res.p
               /\ claimAttempts' = res.a
               /\ allowFrom' = IF res.request # None
                                THEN approveUser(allowFrom, res.request[1].slackUserId, stored)
                                ELSE allowFrom
        /\ dmLast' = [op |-> "claimOwnership"]
        /\ pLast' = [op |-> "other"]
        /\ UNCHANGED <<dmPending, requestAttempts, pSpent, pWon, pWindows>>

(***************************************************************************)
(* Specifications                                                          *)
(***************************************************************************)
RetryInit ==
    /\ rOpts \in RetryOptions
    /\ RetryIdle
    /\ now = 0
    /\ TypingIdle
    /\ StreamIdle
    /\ PairingIdle
    /\ TurnsIdle
    /\ DMIdle

RetryNext ==
    \/ WithRetryCall
    \/ FnResolves
    \/ FnRejects
    \/ SleepElapses

SpecRetry == RetryInit /\ [][RetryNext]_vars

TypingInit ==
    /\ rOpts \in TypingRetryOptions
    /\ RetryIdle
    /\ now = 0
    /\ TypingIdle
    /\ StreamIdle
    /\ PairingIdle
    /\ TurnsIdle
    /\ DMIdle

\* The typing simulator alone: its callers start, stop and touch sessions at
\* any time.
TypingOnly == UNCHANGED <<dmVars, turnVars, pairingVars, retryVars, now, streamVars>>

TypingAdvance ==
    /\ \A d \in TypingDue : d > now
    /\ NextInstant(TypingDue, TimeStep) <= MaxTime
    /\ now' = NextInstant(TypingDue, TimeStep)
    /\ UNCHANGED <<dmVars, turnVars, pairingVars, retryVars, typingVars, streamVars>>

TypingNext ==
    \/ \E key \in Keys : StartTypingCall(key) /\ TypingOnly
    \/ \E key \in Keys : StopTypingCall(key) /\ TypingOnly
    \/ \E key \in Keys : TickTypingCall(key) /\ TypingOnly
    \/ \E sid \in 1..MaxTypingSessions : IntervalFires(sid) /\ TypingOnly
    \/ \E i \in 1..MaxTypingEdits : TypingEditResolves(i) /\ TypingOnly
    \/ \E i \in 1..MaxTypingEdits : TypingEditRejects(i) /\ TypingOnly
    \/ \E i \in 1..MaxTypingEdits : TypingEditWakes(i) /\ TypingOnly
    \/ TypingAdvance

SpecTyping == TypingInit /\ [][TypingNext]_vars

\* The typing simulator followed past its idle timeout: one session is
\* started, and touched or stopped at any time; a chatUpdate settles before
\* the clock moves on (its backoff sleeps take their time).
IdleAdvance ==
    /\ \A d \in TypingDue : d > now
    /\ \A i \in 1..Len(tEdits) : tEdits[i].task.phase # "calling"
    /\ NextInstant(TypingDue, TimeStep) <= MaxIdleTime
    /\ now' = NextInstant(TypingDue, TimeStep)
    /\ UNCHANGED <<dmVars, turnVars, pairingVars, retryVars, typingVars, streamVars>>

IdleNext ==
    \/ \E key \in Keys : StartTypingCall(key) /\ tSess = <<>> /\ TypingOnly
    \/ \E key \in Keys : StopTypingCall(key) /\ TypingOnly
    \/ \E key \in Keys : TickTypingCall(key) /\ TypingOnly
    \/ \E sid \in 1..MaxTypingSessions : IntervalFires(sid) /\ TypingOnly
    \/ \E i \in 1..MaxTypingEdits : TypingEditResolves(i) /\ TypingOnly
    \/ \E i \in 1..MaxTypingEdits : TypingEditRejects(i) /\ TypingOnly
    \/ \E i \in 1..MaxTypingEdits : TypingEditWakes(i) /\ TypingOnly
    \/ IdleAdvance

SpecIdle == TypingInit /\ [][IdleNext]_vars

StreamInit ==
    /\ rOpts \in StreamRetryOptions
    /\ RetryIdle
    /\ now = 0
    /\ TypingIdle
    /\ StreamIdle
    /\ PairingIdle
    /\ TurnsIdle
    /\ DMIdle

StreamNext ==
    \/ HandleMessage
    \/ SayResolves
    \/ SayRejects
    \/ ChunkArrives
    \/ HandlerEditResolves
    \/ HandlerEditRejects
    \/ HandlerEditWakes
    \/ TimerFires
    \/ TimerEditResolves
    \/ TimerEditRejects
    \/ TimerEditWakes
    \/ InjectResolves
    \/ InjectRejects
    \/ MainEditResolves
    \/ MainEditRejects
    \/ MainEditWakes
    \/ ReactionsDone
    \/ \E sid \in 1..MaxTypingSessions : StreamIntervalFires(sid)
    \/ \E i \in 1..MaxTypingEdits : StreamTypingEditResolves(i)
    \/ \E i \in 1..MaxTypingEdits : StreamTypingEditRejects(i)
    \/ \E i \in 1..MaxTypingEdits : StreamTypingEditWakes(i)
    \/ StreamAdvance

SpecStream == StreamInit /\ [][StreamNext]_vars

PairingInit ==
    /\ rOpts \in TypingRetryOptions
    /\ RetryIdle
    /\ now = 0
    /\ TypingIdle
    /\ StreamIdle
    /\ PairingIdle
    /\ TurnsIdle
    /\ DMIdle

PairingOnly == UNCHANGED <<retryVars, now, typingVars, streamVars, turnVars, dmVars>>

\* The store of pending requests: requests are created, claimed, looked up,
\* listed and cleaned up at any time; the clock is looked at when the
\* lifetime of a code has passed since the start, and one millisecond later.
PairingInstants == {PAIRING_CODE_TTL_MS, PAIRING_CODE_TTL_MS + 1}

PairingAdvance ==
    /\ LaterInstants(PairingInstants) # {}
    /\ now' = SetMin(LaterInstants(PairingInstants))
    /\ UNCHANGED <<dmVars, turnVars, pairingVars, retryVars, typingVars, streamVars>>

PairingNext ==
    \/ \E u \in Users : CreatePairingRequest(u) /\ PairingOnly
    \/ \E raw \in RawCodes, sourceId \in SourceIds, claimingUserId \in ClaimingUserIds :
          ClaimPairingCode(raw, sourceId, claimingUserId) /\ PairingOnly
    \/ \E raw \in RawCodes : GetPairingRequest(raw) /\ PairingOnly
    \/ ListPairingRequests /\ PairingOnly
    \/ CleanupExpiredPairings /\ PairingOnly
    \/ PairingAdvance

SpecPairing == PairingInit /\ [][PairingNext]_vars

\* The two rate limiters: any source calls either at any time, stale entries
\* are cleaned up at any time; the clock is looked at when a window has
\* passed since the start, and one millisecond later.
LimiterInstants ==
    {CLAIM_RATE_LIMIT_WINDOW_MS, CLAIM_RATE_LIMIT_WINDOW_MS + 1,
     REQUEST_RATE_LIMIT_WINDOW_MS, REQUEST_RATE_LIMIT_WINDOW_MS + 1}

LimiterAdvance ==
    /\ LaterInstants(LimiterInstants) # {}
    /\ now' = SetMin(LaterInstants(LimiterInstants))
    /\ UNCHANGED <<dmVars, turnVars, pairingVars, retryVars, typingVars, streamVars>>

LimiterNext ==
    \/ \E u \in ClaimSources : CheckClaimRateLimit(u) /\ PairingOnly
    \/ \E u \in Users : CheckRequestRateLimit(u) /\ PairingOnly
    \/ CleanupExpiredPairings /\ PairingOnly
    \/ LimiterAdvance

SpecLimiter == PairingInit /\ [][LimiterNext]_vars

TurnsInit ==
    /\ rOpts \in TypingRetryOptions
    /\ RetryIdle
    /\ now = 0
    /\ TypingIdle
    /\ StreamIdle
    /\ PairingIdle
    /\ TurnsIdle
    /\ DMIdle

TurnsOnly == UNCHANGED <<retryVars, now, streamVars, pairingVars, dmVars>>

TurnsNext ==
    \/ \E t \in Turns : TurnBegins(t) /\ TurnsOnly
    \/ \E t \in Turns : TurnSayResolves(t) /\ TurnsOnly
    \/ \E t \in Turns : TurnChunk(t) /\ TurnsOnly
    \/ \E t \in Turns : TurnSettles(t) /\ TurnsOnly
    \/ \E t \in Turns : TurnCloses(t) /\ TurnsOnly

SpecTurns == TurnsInit /\ [][TurnsNext]_vars

\* the configured allowlist is empty or admits everybody
DMInit ==
    /\ rOpts \in TypingRetryOptions
    /\ RetryIdle
    /\ now = 0
    /\ TypingIdle
    /\ StreamIdle
    /\ PairingIdle
    /\ TurnsIdle
    /\ allowFrom \in {{}, {"*"}}
    /\ dmPending = {}
    /\ dmLast = [op |-> "none"]

DMOnly == UNCHANGED <<retryVars, now, typingVars, streamVars, turnVars>>

\* the clock is looked at once more, when the codes of the start have expired
DMInstants == {PAIRING_CODE_TTL_MS + 1}

DMAdvance ==
    /\ LaterInstants(DMInstants) # {}
    /\ now' = SetMin(LaterInstants(DMInstants))
    /\ dmLast' = [op |-> "none"]
    /\ UNCHANGED <<allowFrom, dmPending, turnVars, pairingVars, retryVars, typingVars,
                   streamVars>>

\* Direct messages, accepted messages reaching the agent, claims through the
\* extension, in any order.
DMNext ==
    \/ \E u \in Users, text \in DMTexts : DirectMessage(u, text) /\ DMOnly
    \/ \E u \in Users : DMInjects(u) /\ DMOnly
    \/ \E u \in Users : DMSayRejects(u) /\ DMOnly
    \/ \E raw \in RawCodes : ClaimOwnership(raw, None, None) /\ DMOnly
    \/ DMAdvance

SpecDM == DMInit /\ [][DMNext]_vars

(***************************************************************************)
(* Claims about retry.ts, checked under SpecRetry.                         *)
(***************************************************************************)
ConfiguredMaxRetries == OrElse(rOpts.maxRetries, DEFAULT_MAX_RETRIES)
ConfiguredMaxDelay == OrElse(rOpts.maxDelay, DEFAULT_MAX_DELAY)
LastFnFailed == Len(rLastFn) = 2 /\ rLastFn[1] = "err"

\* C6: with maxRetries = N >= 0, withRetry invokes the operation at most N+1
\* times, and exactly N+1 times when it ends on a transient failure (every
\* earlier failure was then transient too, or the loop had ended there).
C6_AtMostNPlusOneCalls ==
    /\ rCalls <= ConfiguredMaxRetries + 1
    /\ (rPhase = "thrown" /\ LastFnFailed /\ isTransientError(rLastFn[2]))
          => rCalls = ConfiguredMaxRetries + 1

C6_Witness ==
    /\ rPhase = "thrown"
    /\ rOpts.maxRetries = Some(3)
    /\ rCalls = 4
    /\ LastFnFailed /\ isTransientError(rLastFn[2])

\* C7: withRetry returns a value only if the last invocation succeeded, and
\* then that invocation's result; otherwise it throws exactly the error the
\* last invocation raised.  Nothing is returned or thrown while it runs, and
\* the invocation that ended it was the last one (calls = attempt + 1).
C7_NeverSwallowsFinalFailure ==
    /\ rPhase = "returned" =>
          /\ Len(rLastFn) = 2 /\ rLastFn[1] = "ok"
          /\ rOutcome = Some(rLastFn)
          /\ rCalls = rAttempt + 1
    /\ rPhase = "thrown" =>
          /\ LastFnFailed
          /\ rOutcome = Some(<<"err", Some(rLastFn[2])>>)
          /\ rCalls = rAttempt + 1
    /\ rPhase \in {"idle", "calling", "sleeping"} => rOutcome = None

C7_Witness ==
    /\ rPhase = "thrown"
    /\ rCalls = 3
    /\ rOutcome = Some(<<"err", Some(PlainErr("", Some(502), None))>>)

\* The claim's fatal error: not a rate-limit error, not one of the listed
\* connection codes, not a 5xx status.
C8_Fatal(e) ==
    \/ ~e.isObject
    \/ /\ e.code # "slack_webapi_rate_limited_error"
       /\ e.statusCode # Some(429) /\ e.status # Some(429)
       /\ e.code \notin ConnectionCodes
       /\ \A s \in {e.statusCode, e.status} : ~(IsSome(s) /\ Get(s) >= 500 /\ Get(s) < 600)

\* C8: a fatal error raised at any attempt ends withRetry at once: it is
\* thrown, no sleep and no observer call is made for it (there are as many
\* sleeps and observer calls as earlier invocations), and on the first
\* attempt that is exactly one invocation.
C8_FatalEndsImmediately ==
    (LastFnFailed /\ C8_Fatal(rLastFn[2])) =>
        /\ rPhase = "thrown"
        /\ rOutcome = Some(<<"err", Some(rLastFn[2])>>)
        /\ rCalls = rAttempt + 1
        /\ rSleeps = rCalls - 1
        /\ rObserved = (IF rOpts.onRetry THEN rCalls - 1 ELSE 0)
        /\ (rAttempt = 0 => rCalls = 1 /\ rSleeps = 0 /\ rObserved = 0)

C8_Witness ==
    /\ LastFnFailed /\ rLastFn[2] = PlainErr("", Some(400), None)
    /\ rPhase = "thrown"
    /\ rCalls = 2
    /\ ConfiguredMaxRetries = 3

\* C9: every backoff delay is within 0..maxDelay, whatever the attempt, the
\* jitter and the retry-after hint.
C9_DelayWithinBounds ==
    /\ IsSome(rLastDelay) => (0 <= Get(rLastDelay) /\ Get(rLastDelay) <= ConfiguredMaxDelay)
    /\ IsSome(rPrevDelay) => (0 <= Get(rPrevDelay) /\ Get(rPrevDelay) <= ConfiguredMaxDelay)

\* a 60 s hint against the default 30 s cap
C9_Witness ==
    /\ rPhase = "sleeping"
    /\ LastFnFailed /\ RetryAfterMs(rLastFn[2]) = Some(60000)
    /\ rLastDelay = Some(DEFAULT_MAX_DELAY)

\* C10: while no failure of the call carried a usable retry-after hint, each
\* delay is at least the one before it.
C10_DelaysNonDecreasing ==
    (~rAnyHint /\ IsSome(rPrevDelay)) => Get(rLastDelay) >= Get(rPrevDelay)

\* 1000 + 999 of jitter, then 2000 + 0
C10_Witness ==
    /\ ~rAnyHint
    /\ rPrevDelay = Some(1999)
    /\ rLastDelay = Some(2000)

\* the retry-after hint a failure carries, in seconds (optional)
HintSeconds(e) == IF IsSome(isRateLimitError(e)) THEN Get(isRateLimitError(e)) ELSE None

\* the delay the claim gives a failure with hint h: min(h, maxDelay), in ms
HintedDelay(e) == Min(Get(HintSeconds(e)) * 1000, ConfiguredMaxDelay)

\* the sleep in progress and the observer call before it used exactly `delay`
SleepsFor(delay) ==
    /\ rLastDelay = Some(delay)
    /\ rOpts.onRetry => rLastObs = Some(<<rAttempt + 1, delay, rLastFn[2]>>)

C12_ObserverOncePerRetry ==
    /\ rPhase \in {"calling", "returned", "thrown"} => rSleeps = rCalls - 1
    /\ rPhase = "sleeping" => rSleeps = rCalls
    /\ rObserved = (IF rOpts.onRetry THEN rSleeps ELSE 0)
    /\ rObserved > 0 => Get(rLastObs)[1] = rObserved
    /\ (rPhase = "sleeping" /\ rOpts.onRetry) => Get(rLastObs)[3] = rLastFn[2]

\* a run of four invocations that all failed: three observer calls, the last
\* one reporting attempt 3
C12_Witness ==
    /\ rPhase = "thrown"
    /\ rOpts.onRetry
    /\ rCalls = 4 /\ rSleeps = 3 /\ rObserved = 3
    /\ Get(rLastObs)[1] = 3

(***************************************************************************)
(* Claims about typing.ts, checked under SpecTyping.                       *)
(***************************************************************************)
\* C4: after stopTyping(key), also when a frame edit for the key is in flight
\* or in a retry backoff, the typing simulator issues no further chatUpdate
\* for that key (until the key is started again).
C4_NoEditAfterStop == tLate = {}

SessionsOf(key) == {sid \in 1..Len(tSess) : tSess[sid].key = key}

\* C5: per key at most one typing session is active and at most one interval
\* timer is live, and it is the registered session's: every session that
\* startTyping replaced has active = FALSE and no timer.
C5_OneSessionPerKey ==
    \A key \in Keys :
        LET live == {sid \in SessionsOf(key) : tSess[sid].active}
            timers == {sid \in SessionsOf(key) : tSess[sid].interval}
        IN  /\ Cardinality(live) <= 1
            /\ Cardinality(timers) <= 1
            /\ live \subseteq {activeIndicators[key]}
            /\ timers \subseteq {activeIndicators[key]}

\* startTyping has replaced a session that was still active
C5_Witness ==
    \E key \in Keys :
        /\ Cardinality(SessionsOf(key)) = 2
        /\ activeIndicators[key] = 2
        /\ tSess[2].active /\ tSess[2].interval
        /\ ~tSess[1].active /\ ~tSess[1].interval
        /\ tStopped = {}

\* C21: when the withRetry of a typing-frame edit throws (fatal error, or
\* retries exhausted), the session of that callback is stopped: it is not
\* active, has no timer (so none of its ticks runs again) and is not the
\* registered session of its key.
C21_FailedEditStopsSession ==
    \A sid \in 1..Len(tSess) :
        tSess[sid].failed =>
            /\ ~tSess[sid].active
            /\ ~tSess[sid].interval
            /\ activeIndicators[tSess[sid].key] # sid

\* a session whose first frame edit failed for good, nothing else touching it
C21_Witness ==
    \E sid \in 1..Len(tSess) :
        /\ tSess[sid].failed
        /\ tSess[sid].attempts = 1
        /\ activeIndicators[tSess[sid].key] = 0
        /\ Len(tSess) = 1
        /\ tEdits = <<>>
        /\ now = TYPING_REFRESH_MS + 1000

\* a session nobody touched: its lastActivity is still its start time
Untouched(st) == st.lastActivity = st.started

\* C22: a typing session stops by itself at the first tick at which
\* now - lastActivity exceeds 30000 ms, without an edit on that tick: no timer
\* survives such a tick, no tick past the threshold attempted an edit, and a
\* session never touched attempts at most 10 edits (exactly 10 when it is the
\* idle timeout that stops it, 33000 ms after its start).
C22_IdleSessionStops ==
    \A sid \in 1..Len(tSess) :
        LET st == tSess[sid]
        IN  /\ st.interval => st.nextFire - TYPING_REFRESH_MS - st.lastActivity <= 30000
            /\ st.interval => now - st.lastActivity <= 33000
            /\ st.lastEditAt - st.lastActivity <= 30000
            /\ Untouched(st) => st.attempts <= 10
            /\ (Untouched(st) /\ st.idleStopped) =>
                  /\ st.attempts = 10
                  /\ now >= st.started + 33000
                  /\ ~st.active /\ ~st.interval /\ activeIndicators[st.key] = 0

\* a session started at 0 and never touched, stopped by its eleventh tick
C22_Witness ==
    \E sid \in 1..Len(tSess) :
        /\ tSess[sid].started = 0 /\ Untouched(tSess[sid])
        /\ tSess[sid].idleStopped
        /\ tSess[sid].attempts = 10
        /\ tSess[sid].lastEditAt = 30000
        /\ now = 33000
        /\ ~tSess[sid].active /\ activeIndicators[tSess[sid].key] = 0

\* C23: tickTyping(key) on a key with a session sets that session's
\* lastActivity to the current time and changes nothing else, in it or in any
\* other session; and the idle timeout only stops a session at a tick more
\* than 30000 ms after its last touch.
C23_TickOnlyTouchesActivity ==
    /\ \A key \in Keys :
          LET S == tickTyping(tSess, activeIndicators, key, now)
              r == activeIndicators[key]
          IN  r # 0 =>
                /\ Len(S) = Len(tSess)
                /\ \A sid \in 1..Len(tSess) :
                      S[sid] = IF sid = r THEN [tSess[sid] EXCEPT !.lastActivity = now]
                               ELSE tSess[sid]
    /\ \A sid \in 1..Len(tSess) :
          tSess[sid].idleStopped => tSess[sid].idleStopAt - tSess[sid].lastActivity > 30000

\* a session touched after its start that is still running at the tick 33000
\* ms after its start, where an untouched one stops
C23_Witness ==
    \E sid \in 1..Len(tSess) :
        /\ tSess[sid].lastActivity > tSess[sid].started
        /\ tSess[sid].active /\ tSess[sid].interval
        /\ activeIndicators[tSess[sid].key] = sid
        /\ tSess[sid].lastEditAt = tSess[sid].started + 33000
        /\ tSess[sid].attempts = 11

\* C24: stopTyping(key) and tickTyping(key) for a key without a session
\* change nothing: no session is created, the registry and every session and
\* timer stay as they are; and a second stopTyping(key) changes nothing after
\* the first.
C24_AbsentKeyNoOp ==
    \A key \in Keys :
        LET once == stopTyping(tSess, activeIndicators, key)
        IN  /\ activeIndicators[key] = 0 =>
                 /\ once = [s |-> tSess, r |-> activeIndicators]
                 /\ tickTyping(tSess, activeIndicators, key, now) = tSess
            /\ once.r[key] = 0
            /\ stopTyping(once.s, once.r, key) = once

\* stopTyping was called for a key that never had a session while the other
\* key's session runs
C24_Witness ==
    \E key \in Keys :
        /\ key \in tStopped
        /\ \A sid \in 1..Len(tSess) : tSess[sid].key # key
        /\ \E sid \in 1..Len(tSess) :
              /\ activeIndicators[tSess[sid].key] = sid
              /\ tSess[sid].active /\ tSess[sid].interval
              /\ tSess[sid].attempts > 0

\* C25: the frame index of a session starts at 0, stays within 0..2 and
\* advances by one position, cyclically, with every tick that attempts an
\* edit: the k-th such tick pushes frame number k mod 3.
C25_FramesCycle ==
    /\ \A sid \in 1..Len(tSess) :
          /\ tSess[sid].frameIndex \in 0..2
          /\ tSess[sid].frameIndex = tSess[sid].attempts % 3
    /\ \A i \in 1..Len(tEdits) :
          /\ tEdits[i].k >= 1
          /\ tEdits[i].frame = tEdits[i].k % 3

\* the fourth attempting tick of a session has pushed frame 1 again, after
\* the index wrapped around
C25_Witness ==
    \E i \in 1..Len(tEdits) :
        /\ tEdits[i].k = 4
        /\ tEdits[i].frame = 1
        /\ tSess[tEdits[i].sid].attempts = 4

\* C38: the failure of a frame edit of a session changes no other session:
\* when the session was replaced by startTyping for the same key while its
\* edit was in flight, the replacement stays registered, active and armed.
C38_OldEditLeavesNewSession ==
    [][\A sid \in 1..Len(tSess) :
          (~tSess[sid].failed /\ tSess'[sid].failed)
             => /\ \A o \in 1..Len(tSess) : o # sid => tSess'[o] = tSess[o]
                /\ activeIndicators[tSess[sid].key] # sid
                      => activeIndicators' = activeIndicators
      ]_vars

(***************************************************************************)
(* Claims about the stream handlers of index.ts, checked under SpecStream. *)
(***************************************************************************)
\* the turn completed through ctx.inject's result and its own finalizeMessage,
\* every chat.update of the turn resolved, and none is still in flight
CompletedByInject ==
    /\ pc \in {"react", "done"}
    /\ sFinalBy = "completion"
    /\ ~sNetFail
    /\ hEdit = None /\ fEdit = None /\ mEdit = None /\ tEdits = <<>>

\* C1: for every sequence of non-empty text chunks and arrival times, once the
\* turn has completed the placeholder shows the concatenation of all chunk
\* texts (cut to 3997 characters and "..." above the 4000 cap).
C1_FinalTextIsConcatenation ==
    (CompletedByInject /\ sAllText # Empty)
        => visible = ShowText(TruncateText(sAllText))

\* C2: whatever the interleaving of the timer-driven and the completion-driven
\* finalize, finalizeMessage starts at most one final edit, and it has started
\* one exactly when isFinalized is set: no later call issues another.
C2_AtMostOneFinalEdit ==
    /\ sFinalEdits <= 1
    /\ streamState.isFinalized <=> sFinalEdits = 1

\* the finalize timer finalized the session while ctx.inject was pending, and
\* the completion path then found isFinalized set and issued nothing
C2_Witness ==
    /\ pc = "react"
    /\ sFinalBy = "timer"
    /\ streamState.isFinalized
    /\ sFinalEdits = 1
    /\ sChunks = MaxChunks

\* C3: once isFinalized is set no further edit (typing frame, flush, retry of
\* an earlier edit, error notice) is issued against the placeholder.
C3_NoEditAfterFinalize == sLate = {}

\* the text updateMessage and finalizeMessage push to Slack
PushedEdits ==
    {Get(e) : e \in {x \in {hEdit, fEdit, mEdit} : IsSome(x) /\ Get(x).kind \in {"flush", "final"}}}

\* C13: every text pushed by a flush or by finalize has at most 4000
\* characters: content of at most 4000 characters is pushed unchanged, longer
\* content as its first 3997 characters followed by "...", 4000 in all; the
\* rule is the same for updateMessage and finalizeMessage.
C13_PushedTextCapped ==
    \A e \in PushedEdits :
        LET text == e.show.text
        IN  /\ e.show.kind = "text"
            /\ TLen(text) <= 4000
            /\ TLen(e.content) <= 4000 => text = e.content
            /\ TLen(e.content) > 4000 =>
                  /\ TLen(text) = 4000
                  /\ TPrefix(text, 3997) = TPrefix(e.content, 3997)
                  /\ text[Len(text)] = [c |-> ".", n |-> 3]

\* the finalize timer is pushing a 5000-character buffer as 4000 characters
C13_Witness ==
    \E e \in PushedEdits :
        /\ TLen(e.content) = 5000
        /\ TLen(e.show.text) = 4000
        /\ e.kind = "final"
        /\ sFinalBy = "timer"

\* C14: when every text fragment of a turn arrived within the idle gap of the
\* one before it (of the session start for the first) and their total length
\* is below the edit threshold, the completed turn has issued no intermediate
\* edit and exactly one finalize edit, whose text is their concatenation.
C14_QuietTurnOneEdit ==
    (pc = "react" /\ sAllText # Empty /\ ~sGap /\ TLen(sAllText) < EDIT_THRESHOLD)
        => /\ sFlushes = 0
           /\ sFinalEdits = 1
           /\ sFinalText = Some(sAllText)

\* two fragments, the second one 1000 ms after the first, then completion
C14_Witness ==
    /\ pc = "react"
    /\ sChunks = 2 /\ sAllText = Run("a", 6) /\ ~sGap
    /\ sLastArrival > 0
    /\ sFlushes = 0 /\ sFinalEdits = 1 /\ sFinalText = Some(Run("a", 6))
    /\ sFinalBy = "completion"

\* the producer has delivered text and has not completed, no handler is
\* running, no chat.update has failed, the last text fragment arrived more than
\* the finalize debounce ago and the debounce timer set after it has fired
IdleBeyondDebounce ==
    /\ pc = "inject"
    /\ hpc = "idle"
    /\ sAllText # Empty
    /\ ~sNetFail
    /\ now - sLastArrival > FINALIZE_MS
    /\ finalizeTimer = None

\* C15: a session that has received content and then sees no fragment for more
\* than the finalize debounce, the producer not having completed, has been
\* finalized: isFinalized is set and a finalize edit was issued, whatever the
\* fragments before, also when the last one triggered an idle split.
C15_IdleSessionFinalized ==
    IdleBeyondDebounce => (streamState.isFinalized /\ sFinalEdits = 1)

\* no typing session of the turn's key is registered, active or has a timer
TypingStoppedForTurn ==
    /\ activeIndicators[SessionKey] = 0
    /\ \A sid \in 1..Len(tSess) :
          tSess[sid].key = SessionKey => (~tSess[sid].active /\ ~tSess[sid].interval)

\* C16: when the turn was opened (placeholder posted, typing started) and is
\* closed by the empty-content path, no chunk having been produced and every
\* Slack call having succeeded, the typing session of the key is stopped, the
\* placeholder is deleted and no finalize edit was issued.
C16_EmptyTurnStoppedAndDeleted ==
    (pc = "done" /\ sExit = "empty" /\ sChunks = 0 /\ ~sNetFail)
        => /\ TypingStoppedForTurn
           /\ visible = ShowNothing
           /\ sFinalEdits = 0

\* C17: the stream state is registered from the moment handleMessage sets it
\* until handleMessage returns, and whatever the path of the return (success,
\* producer failure, failure of the initial post, empty content) the registry
\* then holds no entry for the key.
C17_CloseAlwaysRuns ==
    /\ pc = "done" => SessionKey \notin activeStreams
    /\ pc \notin {"start", "done"} => SessionKey \in activeStreams

\* the initial post failed, the catch block ran and handleMessage has returned
C17_Witness ==
    /\ pc = "done"
    /\ sExit = "error"
    /\ streamState.messageTs = 0
    /\ activeStreams = {}

\* the producer failed after the placeholder was posted, handleMessage has
\* returned, every chat.update of the turn succeeded and nothing is pending
\* any more: no call in flight, no timer
FailedTurnSettled ==
    /\ pc = "done"
    /\ sExit = "error"
    /\ streamState.messageTs # 0
    /\ ~sNetFail
    /\ hEdit = None /\ fEdit = None /\ mEdit = None /\ tEdits = <<>>
    /\ finalizeTimer = None

\* C18: when ctx.inject rejects, handleMessage stops the typing session,
\* removes the stream session, and the placeholder ends up showing the error
\* notice, not streamed content.
C18_ErrorNoticeStays ==
    (FailedTurnSettled /\ visible.kind # "frame")
        => /\ TypingStoppedForTurn
           /\ SessionKey \notin activeStreams
           /\ visible = ShowError

\* C19: when the finalize edit of the completion path fails (retries
\* exhausted, or a fatal error), the caller of finalizeMessage learns of it: it
\* does not go on as after a successful turn.
C19_FinalizeFailureSurfaced ==
    (sFinalFailed /\ sFinalBy = "completion") => (pc \notin {"react", "done"} \/ sExit # "ok")

\* C20: text leaves the streaming buffer (the idle-split clear) only after an
\* edit delivered it: when the flush failed, its retries exhausted or the
\* error fatal, the text stays in the buffer for a later edit.
C20_ClearedTextWasDelivered == ~sLost

\* the chat.update calls for the placeholder that are awaiting their answer:
\* those of handleChunk, of the timer's finalizeMessage, of handleMessage and
\* of the typing callbacks
UpdatesInFlight ==
    Cardinality({e \in {hEdit, fEdit, mEdit} : Calling(e) /\ Get(e).kind # "delete"})
    + Cardinality({i \in 1..Len(tEdits) : tEdits[i].task.phase = "calling"})

\* C29: at any time at most one update call for the placeholder is in flight,
\* counting typing-frame edits, flushes, the finalize edit and their retries
\* (so that edits reach the channel in the order of their triggering events).
C29_OneUpdateInFlight == UpdatesInFlight <= 1

\* C30: when handleMessage has returned, by whatever path, no finalize timer
\* and no typing interval of the turn is pending.
C30_ReturnCancelsTimers ==
    pc = "done" => (finalizeTimer = None /\ TypingStoppedForTurn)

\* C31: the placeholder reference is assigned once, from the result of the
\* initial post; every edit or delete issued for the turn (typing frames,
\* flushes, finalize, error notice, delete) is issued after the assignment and
\* targets the assigned reference, also when the initial post failed.
C31_EditsTargetAssignedRef ==
    /\ \A e \in {hEdit, fEdit, mEdit} : IsSome(e) => streamState.messageTs # 0
    /\ \A i \in 1..Len(tEdits) :
          /\ tSess[tEdits[i].sid].messageTs # 0
          /\ tSess[tEdits[i].sid].messageTs = streamState.messageTs

\* C32: the finalize timer is a debounce: a timer-driven finalize fires only
\* when no fragment with text has arrived during the 2000 ms before it, also
\* when a chunk handler is suspended in an edit or in a retry backoff.
C32_TimerFinalizeAfterQuiet ==
    [][(sFinalBy = "none" /\ sFinalBy' = "timer") => now - sLastArrival >= 2000]_vars

C35_FirstContentStopsTyping ==
    [][/\ (sAllText = Empty /\ sAllText' # Empty)
            => /\ activeIndicators'[SessionKey] = 0
               /\ \A sid \in 1..Len(tSess') :
                     tSess'[sid].key = SessionKey
                        => (~tSess'[sid].active /\ ~tSess'[sid].interval)
       /\ sAllText' # Empty => activeIndicators'[SessionKey] = 0
       /\ (sChunks' = sChunks + 1 /\ sAllText' = sAllText)
            => UNCHANGED <<tSess, activeIndicators, buffer, lastFlush, finalizeTimer,
                           hpc, hEdit, sFlushes>>
      ]_vars

\* a fragment without text and then the first fragment with text have
\* arrived, after the typing session had pushed a frame: the session is
\* stopped
C35_Witness ==
    /\ sChunks = 2
    /\ TLen(sAllText) = 3
    /\ buffer = sAllText
    /\ activeIndicators[SessionKey] = 0
    /\ \E sid \in 1..Len(tSess) :
          /\ tSess[sid].key = SessionKey
          /\ tSess[sid].attempts > 0
          /\ ~tSess[sid].active /\ ~tSess[sid].interval /\ ~tSess[sid].failed

\* C36: when the edit of an idle split or of a threshold flush is over,
\* failed after its retries or not, handleChunk goes on in the same way: it
\* does not throw (handleMessage stays where it is), the session stays
\* un-finalized by it, the buffer is cleared after an idle split and kept
\* after a threshold flush, and the finalize timer is armed; so later chunks
\* are handled as after a successful edit.
C36_FailedFlushGoesOn ==
    [][(Calling(hEdit) /\ hEdit' # hEdit /\ ~Sleeping(hEdit'))
          => /\ pc' = pc /\ sExit' = sExit
             /\ streamState' = streamState
             /\ hpc' = "idle"
             /\ hEdit' = None
             /\ finalizeTimer' = Some(now + 2000)
             /\ hpc = "idleFlush" => (buffer' = Empty /\ lastFlush' = hNow)
             /\ hpc = "threshFlush" => (buffer' = buffer /\ lastFlush' = lastFlush)
      ]_vars

\* the edit of an idle split failed for good, and the next fragment was
\* appended and armed the finalize timer
C36_Witness ==
    /\ sLost
    /\ sChunks = 2
    /\ hpc = "idle"
    /\ buffer # Empty
    /\ IsSome(finalizeTimer)
    /\ ~streamState.isFinalized
    /\ pc = "inject"

\* C37: when ctx.inject has resolved, the finalize edit is issued exactly
\* when the timer has not finalized the session before; it carries the buffer
\* when the buffer is not empty and the returned result only when it is.
C37_CompletionFinalText ==
    [][(pc = "inject" /\ sExit' = "ok")
          => IF streamState.isFinalized
             THEN /\ pc' = "react"
                  /\ mEdit' = None
                  /\ sFinalEdits' = sFinalEdits
                  /\ sFinalBy = "timer"
             ELSE /\ pc' = "finalize"
                  /\ IsSome(mEdit')
                  /\ Get(mEdit').kind = "final"
                  /\ sFinalEdits' = sFinalEdits + 1
                  /\ buffer # Empty => Get(mEdit').content = buffer
                  /\ buffer = Empty => Get(mEdit').content \in Responses(sAllText)
      ]_vars

\* the finalize edit of the completion path is awaited with the buffer, which
\* is not the whole streamed text (an idle split has cleared it before)
C37_Witness ==
    /\ pc = "finalize"
    /\ sFinalBy = "completion"
    /\ Calling(mEdit)
    /\ buffer # Empty
    /\ Get(mEdit).content = buffer
    /\ buffer # sAllText

\* C39: while the second turn on a key is in progress, no chunk, completion,
\* failure or finally block of the first turn removes the
\* second turn's entry from the stream registry or stops the second turn's
\* typing session.
C39_TurnsIsolated ==
    [][(/\ turns'[1] # turns[1]
        /\ ~(turns[1].pc = "say" /\ turns'[1].pc = "inject")
        /\ turns[2].pc \in InProgress)
          => /\ streamOwner = 2 => streamOwner' = 2
             /\ \A sid \in 1..Len(tSess) :
                   tSess[sid].messageTs = 2
                      => /\ tSess'[sid] = tSess[sid]
                         /\ activeIndicators[SessionKey] = sid
                               => activeIndicators'[SessionKey] = sid
      ]_vars

(***************************************************************************)
(* Claims about the pairing module, checked under SpecPairing and          *)
(* SpecLimiter.                                                            *)
(***************************************************************************)
\* C26 as stated: a code is claimed successfully at most once, every claim of
\* a code after a successful one returns no request and an error.
C26_CodeClaimedOnce ==
    (pLast.op = "claim" /\ pLast.wonBefore) => (~pLast.ok /\ pLast.error # None)

\* C26: a code is claimed successfully at most once per issue: every claim of
\* a code after a successful one, and before createPairingRequest issues the
\* same code again, returns no request and an error.
C26_IssueClaimedOnce ==
    (pLast.op = "claim" /\ pLast.spentBefore) => (~pLast.ok /\ pLast.error # None)

\* a code was claimed again after its successful claim, by the user it was
\* issued to and without a rate limit, and the claim was refused
C26_Witness ==
    /\ pLast.op = "claim"
    /\ pLast.spentBefore
    /\ pLast.claimingUserId = Some("U1")
    /\ ~pLast.ok
    /\ pLast.error = Some("Invalid or expired pairing code")

\* C27: a claim with a claimingUserId other than the slackUserId of the
\* pending request never succeeds and leaves the request in the store,
\* unclaimed.
C27_BoundToGenerator ==
    (/\ pLast.op = "claim"
     /\ pLast.claimingUserId # None
     /\ pLast.before # None
     /\ pLast.claimingUserId[1] # pLast.before[1].slackUserId)
        => /\ ~pLast.ok
           /\ pendingPairings[pLast.code] = pLast.before
           /\ ~pendingPairings[pLast.code][1].claimed

\* C28: a limiter call returns true exactly when it is among the first 5
\* (claims, 60 s) or 3 (requests, 5 minutes) calls of its source in the
\* window it falls in; the first call after a window has elapsed starts a
\* new window and is admitted.
C28_LimiterAdmitsMaxPerWindow ==
    /\ pLast.op = "checkClaim" =>
          LET w == pWindows["claim"][pLast.source][1]
          IN  /\ pLast.ok = (w.calls <= 5)
              /\ w.calls = 1 => claimAttempts[pLast.source] \in
                                    {None, Some([count |-> 1, windowStart |-> w.start])}
    /\ pLast.op = "checkRequest" =>
          LET w == pWindows["request"][pLast.source][1]
          IN  /\ pLast.ok = (w.calls <= 3)
              /\ w.calls = 1 => requestAttempts[pLast.source] \in
                                    {None, Some([count |-> 1, windowStart |-> w.start])}

\* the claim limiter admits the first call after a window in which it had
\* refused calls
C28_Witness ==
    /\ pLast.op = "checkClaim"
    /\ pLast.ok
    /\ pWindows["claim"][pLast.source][1].full
    /\ pWindows["claim"][pLast.source][1].start = 60 * 1000 + 1
    /\ claimAttempts[pLast.source] = Some([count |-> 1, windowStart |-> 60 * 1000 + 1])


(***************************************************************************)
(* Claims about direct messages under the policy "pairing", checked under  *)
(* SpecDM.                                                                 *)
(***************************************************************************)
\* C40: a direct message is accepted for the agent, and reaches ctx.inject,
\* only if the allowlist admits its sender then (it lists the sender, or
\* "*"); a message that claims a code successfully gets the confirmation and
\* is not accepted; any other message of a sender the allowlist does not
\* admit is neither accepted nor confirmed, it gets the pairing message or
\* nothing.
C40_PairingGate ==
    /\ dmLast.op = "inject" => dmLast.listed \/ dmLast.wildcard
    /\ dmLast.op = "message"
          => /\ dmLast.accepted => dmLast.listed \/ dmLast.wildcard
             /\ dmLast.claimed => dmLast.confirmation /\ ~dmLast.accepted /\ ~dmLast.prompt
             /\ (~dmLast.listed /\ ~dmLast.wildcard /\ ~dmLast.claimed)
                   => ~dmLast.accepted /\ ~dmLast.confirmation
    /\ \A u \in dmPending : u \in allowFrom \/ "*" \in allowFrom

\* a sender who was paired by a claim is listed and a message of theirs has
\* reached the agent
C40_Witness ==
    /\ dmLast.op = "inject"
    /\ dmLast.listed
    /\ ~dmLast.wildcard

====
